---------------------------- MODULE Spec2Model ----------------------------
(***************************************************************************)
(* Quota manager (src/app/utils/api_manager.py) and base fetcher           *)
(* (src/app/fetchers/base.py) of neutralnews.                              *)
(*                                                                         *)
(* Time is time.time() in whole seconds.  The APIManager methods are       *)
(* plain synchronous functions; their callers are coroutines of one        *)
(* asyncio event loop (src/run.py:24, asyncio.gather in                     *)
(* src/examples/test_fetcher.py:44), so a method call runs to completion   *)
(* and tasks interleave only at the awaits of BaseFetcher.make_request.    *)
(***************************************************************************)
EXTENDS Integers, Sequences, FiniteSets, TLC

VARIABLES
    now,                \* time.time()
    quotas,             \* APIManager.quotas: api_name -> APIQuota
    api_keys,           \* APIManager.api_keys: api_name -> ordered dict key_id -> key_value
    last_key_rotation,  \* APIManager.last_key_rotation: api_name -> timestamp
    ret,                \* the last call of an APIManager method and what it returned
    granted,            \* observer: True returns of can_make_request per window since that window's reset,
                        \* and, where they are logged, the times of all of them
    served,             \* observer: keys get_api_key returned since the key set last changed
    evicted,            \* observer: per source, one entry handle_auth_error removed and no call registered again
    tasks,              \* the fetch coroutines (BaseFetcher.make_request), one record per task
    fetches,            \* BaseFetcher.fetch_with_retry around each task's make_request calls
    run,                \* one call of _fetch_and_process_data (src/routes.py) and of /data on its result
    dedup,              \* remove_duplicates applied to an article list, and again to its result
    ranked,             \* one call of filter_relevant_articles: its arguments, its scores, its result
    standardized,       \* one call of process_articles: its arguments and its result
    models,             \* ModelManager's class attributes and the threads inside get_instance
    sessions,           \* per BaseFetcher: _session, the sessions created and those open
    singleton           \* APIManager._instance and its _initialized

\* The news pipeline of src/routes.py shares no state with the quota manager
unitVars == <<ranked, standardized, models, sessions, singleton>>

pipelineVars == <<run, dedup, unitVars>>

managerVars == <<now, quotas, api_keys, last_key_rotation, ret, granted, served, evicted,
                 tasks, fetches>>

vars == <<now, quotas, api_keys, last_key_rotation, ret, granted, served, evicted, tasks,
          fetches, pipelineVars>>

-----------------------------------------------------------------------------
(* Bounds of the model *)

\* The quota table is configuration data.  The shipped table (1/30/1000 ...)
\* is scaled down so that every limit and both derating floors are reached.
NewsPerSecond == 1
NewsPerMinute == 2
NewsPerDay == 4
PlaceholderPerSecond == 2
PlaceholderPerMinute == 4
PlaceholderPerDay == 13

\* The clock is explored for a bounded number of seconds of each minute,
\* minutes of each hour, hours of each day, and days.
MaxSeconds == 2
MaxMinutes == 2
MaxHours == 1
MaxDays == 1

\* Keys one source holds at once.
MaxKeys == 2

\* Fetch coroutines running at once.
MaxTasks == 2

\* Largest max_retries a fetch_with_retry call is given.
MaxRetries == 2

\* Largest max_retries of a fetch that runs with no other task.
MaxAttempts == 4

\* MAX_ARTICLES_PER_SOURCE and DEFAULT_TOP_N of config_prod.py (10 and 20),
\* scaled down to the article lists explored.
MAX_ARTICLES_PER_SOURCE == 1
DEFAULT_TOP_N == 3

\* result[1][:3] in _get_trending_summaries
TRENDING_ARTICLES == 3

\* Longest article list given to remove_duplicates on its own, and the
\* number of times it is applied in a row.
MaxArticles == 3
MaxCalls == 2

\* Largest share_count of an article and largest top_n passed to
\* filter_relevant_articles on its own.
MaxShares == 2
MaxTopN == 2

\* Threads that use ModelManager.get_instance, and calls of each.
MaxThreads == 2
MaxUses == 2

\* BaseFetcher objects, and sessions one of them creates.
MaxFetchers == 2
MaxSessions == 2

-----------------------------------------------------------------------------
(* Program constants *)

SECOND_WINDOW == 1
MINUTE_WINDOW == 60
DAY_WINDOW == 86400
KEY_ROTATION_INTERVAL == 3600
\* response.status of an authentication rejection and of a rate limit
FORBIDDEN == 403
TOO_MANY_REQUESTS == 429

\* wait_time = (attempt + 1) * 5
BACKOFF_UNIT == 5

\* RETRY_CONFIG: base_delay, max_delay, exponential_base
BASE_DELAY == 5
MAX_DELAY == 300
EXPONENTIAL_BASE == 2

\* The statuses /data answers with
HTTP_OK == 200
HTTP_BAD_REQUEST == 400
HTTP_NOT_FOUND == 404
HTTP_INTERNAL_ERROR == 500

\* RELEVANCE_THRESHOLD = 0.05, in hundredths
RELEVANCE_THRESHOLD == 5

\* WEIGHT_RELEVANCE = 0.7 and WEIGHT_POPULARITY = 0.3, in tenths
WEIGHT_RELEVANCE == 7
WEIGHT_POPULARITY == 3

MINUTE_FLOOR == 1
DAY_FLOOR == 10
ADMISSION_WAIT == 60

\* 'newsapi' has a quota and requires a key; 'jsonplaceholder' has a quota
\* and no API_CONFIGS entry; 'test_api' (the tests' name) has neither.
ApiNames == {"newsapi", "jsonplaceholder", "test_api"}

API_QUOTAS ==
    [newsapi |-> [requests_per_second |-> NewsPerSecond,
                  requests_per_minute |-> NewsPerMinute,
                  requests_per_day |-> NewsPerDay],
     jsonplaceholder |-> [requests_per_second |-> PlaceholderPerSecond,
                          requests_per_minute |-> PlaceholderPerMinute,
                          requests_per_day |-> PlaceholderPerDay]]

API_CONFIGS == [newsapi |-> [requires_key |-> TRUE]]

KeyIds == {"test_key_1", "test_key_2", "current"}
KeyValues == {"test_value_1", "test_value_2"}

Max(a, b) == IF a >= b THEN a ELSE b

-----------------------------------------------------------------------------
(* APIQuota *)

APIQuota(cfg, t) ==
    [requests_per_second |-> cfg.requests_per_second,
     requests_per_minute |-> cfg.requests_per_minute,
     requests_per_day |-> cfg.requests_per_day,
     current_second |-> 0,
     current_minute |-> 0,
     current_day |-> 0,
     last_second_reset |-> t,
     last_minute_reset |-> t,
     last_day_reset |-> t]

\* "Reset counters if needed"
ResetSecond(q, t) ==
    IF t - q.last_second_reset >= SECOND_WINDOW
    THEN [q EXCEPT !.current_second = 0, !.last_second_reset = t]
    ELSE q

ResetMinute(q, t) ==
    IF t - q.last_minute_reset >= MINUTE_WINDOW
    THEN [q EXCEPT !.current_minute = 0, !.last_minute_reset = t]
    ELSE q

ResetDay(q, t) ==
    IF t - q.last_day_reset >= DAY_WINDOW
    THEN [q EXCEPT !.current_day = 0, !.last_day_reset = t]
    ELSE q

ResetCounters(q, t) == ResetDay(ResetMinute(ResetSecond(q, t), t), t)

WithinLimitsInclusive(q) ==
    /\ q.current_second <= q.requests_per_second
    /\ q.current_minute <= q.requests_per_minute
    /\ q.current_day <= q.requests_per_day

\* "Check if we're within limits"
WithinLimits(q) ==
    /\ q.current_second < q.requests_per_second
    /\ q.current_minute < q.requests_per_minute
    /\ q.current_day < q.requests_per_day

CountRequestSkipsDay(q) ==
    [q EXCEPT !.current_second = @ + 1,
              !.current_minute = @ + 1]

CountRequest(q) ==
    [q EXCEPT !.current_second = @ + 1,
              !.current_minute = @ + 1,
              !.current_day = @ + 1]

\* What can_make_request returns for a configured source at time t, and the
\* quota it leaves.
Admits(q, t) == WithinLimits(ResetCounters(q, t))

QuotaAfterCheckUncounted(q, t) == ResetCounters(q, t)

QuotaAfterCheck(q, t) ==
    IF Admits(q, t) THEN CountRequest(ResetCounters(q, t)) ELSE ResetCounters(q, t)

ThreeQuartersRounded(x) == (3 * x + 2) \div 4

\* int(x * 0.75) for a non-negative int x (the product is exact in a float)
ThreeQuarters(x) == (3 * x) \div 4

ReducedQuota(q) ==
    [q EXCEPT !.requests_per_minute = Max(MINUTE_FLOOR, ThreeQuarters(@)),
              !.requests_per_day = Max(DAY_FLOOR, ThreeQuarters(@))]

-----------------------------------------------------------------------------
(* The key dictionaries: a Python dict keeps insertion order, so a source's *)
(* keys are a sequence of [id, value] entries with distinct ids.           *)

Range(seq) == {seq[i] : i \in 1..Len(seq)}

KeyIdsOf(keys) == {keys[i].id : i \in 1..Len(keys)}
KeyValuesOf(keys) == {keys[i].value : i \in 1..Len(keys)}

KeysOf(api_name) == IF api_name \in DOMAIN api_keys THEN api_keys[api_name] ELSE << >>

\* keys[key_id] = key_value
SetKey(keys, key_id, key_value) ==
    IF key_id \in KeyIdsOf(keys)
    THEN [i \in 1..Len(keys) |->
            IF keys[i].id = key_id THEN [id |-> key_id, value |-> key_value] ELSE keys[i]]
    ELSE Append(keys, [id |-> key_id, value |-> key_value])

DelKeyKeepsEntry(keys, key_id) == keys

\* del keys[key_id]
DelKey(keys, key_id) == SelectSeq(keys, LAMBDA e : e.id # key_id)

\* {k: keys[k] for k in list(keys.keys())[1:] + [current_key]}
RotatedKeys(keys) == Tail(keys) \o <<Head(keys)>>

RequiresKey(api_name) ==
    api_name \in DOMAIN API_CONFIGS /\ API_CONFIGS[api_name].requires_key

RotationAlwaysDue(api_name, t) == TRUE

RotationDue(api_name, t) ==
    \/ api_name \notin DOMAIN last_key_rotation
    \/ t - last_key_rotation[api_name] >= KEY_ROTATION_INTERVAL

\* The three early returns of get_api_key: no key required, no entry for the
\* source, an empty entry.
NoKey(api_name) ==
    \/ ~RequiresKey(api_name)
    \/ api_name \notin DOMAIN api_keys
    \/ api_keys[api_name] = << >>

\* What a lookup past the early returns raises: self.api_keys[api_name]
\* without an entry, list(keys.keys())[0] on an empty dict.
KeyLookupError(api_name) ==
    IF api_name \notin DOMAIN api_keys THEN "KeyError"
    ELSE IF api_keys[api_name] = << >> THEN "IndexError"
    ELSE "None"

Rotates(api_name, t) ==
    ~NoKey(api_name) /\ KeyLookupError(api_name) = "None" /\ RotationDue(api_name, t)

KeysAfterGet(api_name, t) ==
    IF Rotates(api_name, t) THEN RotatedKeys(KeysOf(api_name)) ELSE KeysOf(api_name)

KeyReturned(api_name, t) ==
    IF NoKey(api_name) THEN "None"
    ELSE IF KeyLookupError(api_name) # "None" THEN KeyLookupError(api_name)
    ELSE Head(KeysAfterGet(api_name, t)).value

-----------------------------------------------------------------------------
(* Observers *)

\* Every call flips ret.n, so a call is a visible step even when it changes
\* nothing else.
Returned(op, api_name, key_id, value) ==
    [op |-> op, api_name |-> api_name, key_id |-> key_id, value |-> value, n |-> 1 - ret.n]

NoGrants == [second |-> 0, minute |-> 0, day |-> 0, logged |-> FALSE, times |-> << >>]

LoggedGrants == [NoGrants EXCEPT !.logged = TRUE]

\* A window was reset by a call iff the call moved its reset timestamp.
GrantedAfter(g, q, q2, ok) ==
    LET inc == IF ok THEN 1 ELSE 0
    IN  [second |-> (IF q2.last_second_reset # q.last_second_reset THEN 0 ELSE g.second) + inc,
         minute |-> (IF q2.last_minute_reset # q.last_minute_reset THEN 0 ELSE g.minute) + inc,
         day |-> (IF q2.last_day_reset # q.last_day_reset THEN 0 ELSE g.day) + inc,
         logged |-> g.logged,
         times |-> IF ok /\ g.logged THEN Append(g.times, now) ELSE g.times]

\* Either of the removed entries may be the one that is followed.
NoEntry == [id |-> "None", value |-> "None"]

NothingServed == [id |-> "None", value |-> "None", rotations |-> << >>]

\* The key get_api_key returned last (the head entry it left) and the ids
\* served by its rotating calls, at most one round of them; all forgotten
\* when the key set changes.
ServedAfter(s, keys2, key, rotated) ==
    IF key \in {"None", "KeyError", "IndexError"} THEN s
    ELSE [id |-> Head(keys2).id,
          value |-> key,
          rotations |-> IF rotated
                        THEN (IF Len(s.rotations) >= Len(keys2) THEN << >> ELSE s.rotations)
                                 \o <<Head(keys2).id>>
                        ELSE s.rotations]

-----------------------------------------------------------------------------
(* APIManager *)

NoTask ==
    [pc |-> "idle", api_name |-> "None", asked |-> -1, admitted |-> "None",
     wake |-> 0, api_key |-> "None", key_id |-> "None", status |-> 0, result |-> "None"]

\* No fetch_with_retry call: make_request is called directly
NoFetch ==
    [pc |-> "none", max_retries |-> 0, attempt |-> 0, wake |-> 0, returned |-> "None",
     checks |-> 0, waits |-> 0]

NoRun ==
    [stage |-> "idle", request |-> [form |-> "None", json |-> "None", args |-> "None"],
     invoked |-> FALSE,
     fetched |-> << >>, classifier |-> "ok", vectorizer |-> "ok",
     summarizer |-> "ok",
     processed |-> [reached |-> {}, failed_sources |-> << >>, relevant |-> << >>,
                    result |-> [shape |-> "None", summary |-> "None", articles |-> << >>,
                                error |-> "None"]],
     response |-> [status |-> 0, summary |-> "None", articles |-> << >>,
                   warning |-> "None", error |-> "None"]]

NoDedup == [calls |-> 0, articles |-> << >>, unique |-> << >>]

\* ModelManager before its first use: _instance is None (0); no ModelManager
\* constructed, no sentiment pipeline loaded
ThreadIds == 1..MaxThreads

NoModels ==
    [instance |-> 0, constructed |-> 0, loaded |-> 0,
     analyzer |-> [i \in 1..(MaxThreads * MaxUses) |-> 0],
     threads |-> [t \in ThreadIds |-> [pc |-> "idle", uses |-> 0, got |-> 0, analyzer |-> 0]]]

\* BaseFetcher.__init__: _session is None (0)
FetcherIds == 1..MaxFetchers

NoSession ==
    [session |-> 0, created |-> 0, open |-> {}, pc |-> "idle", op |-> "__init__",
     returned |-> 0, n |-> 0]

\* APIManager after its first construction
Singleton == [instance |-> 1, initialized |-> TRUE]

NoStandardized == [stage |-> "idle", source |-> "None", articles |-> << >>, result |-> << >>]

NoRanked ==
    [stage |-> "idle", articles |-> << >>, top_n |-> 0, relevance_threshold |-> 0,
     article_scores |-> << >>, relevant_articles |-> << >>]

\* Everything but the arguments of the functions that are followed on their own
ConstructedWith(grants) ==
    /\ now = 0
    /\ quotas = [a \in DOMAIN API_QUOTAS |-> APIQuota(API_QUOTAS[a], 0)]
    /\ api_keys = << >>
    /\ last_key_rotation = << >>
    /\ ret = [op |-> "__init__", api_name |-> "None", key_id |-> "None", value |-> "None", n |-> 0]
    /\ granted = [a \in DOMAIN API_QUOTAS |-> grants]
    /\ served = [a \in ApiNames |-> NothingServed]
    /\ evicted = [a \in ApiNames |-> NoEntry]
    /\ tasks = [t \in 1..MaxTasks |-> NoTask]
    /\ fetches = [t \in 1..MaxTasks |-> NoFetch]
    /\ run = NoRun
    /\ models = NoModels
    /\ sessions = [f \in FetcherIds |-> NoSession]
    /\ singleton = Singleton

Constructed == ConstructedWith(NoGrants)

Init ==
    Constructed /\ dedup = NoDedup /\ ranked = NoRanked /\ standardized = NoStandardized

BoolStr(b) == IF b THEN "True" ELSE "False"

\* The guards of the four methods
NoQuotaConfigured(api_name) == api_name \notin DOMAIN quotas

QuotaToReduce(api_name) == api_name \in DOMAIN quotas

KeyToRemoveUnchecked(api_name, key_id) == TRUE

KeyToRemove(api_name, key_id) ==
    api_name \in DOMAIN api_keys /\ key_id \in KeyIdsOf(api_keys[api_name])

\* can_make_request: what it returns and what it leaves
CheckReturns(api_name) ==
    IF NoQuotaConfigured(api_name) THEN "False"
    ELSE IF api_name \notin DOMAIN quotas THEN "KeyError"
    ELSE BoolStr(Admits(quotas[api_name], now))

QuotasChecked(api_name) ==
    IF api_name \in DOMAIN quotas /\ ~NoQuotaConfigured(api_name)
    THEN [quotas EXCEPT ![api_name] = QuotaAfterCheck(@, now)]
    ELSE quotas

GrantedChecked(api_name) ==
    IF api_name \in DOMAIN quotas
    THEN [granted EXCEPT ![api_name] =
             GrantedAfter(@, quotas[api_name], QuotasChecked(api_name)[api_name],
                          CheckReturns(api_name) = "True")]
    ELSE granted

can_make_request(api_name) ==
    /\ quotas' = QuotasChecked(api_name)
    /\ granted' = GrantedChecked(api_name)
    /\ ret' = Returned("can_make_request", api_name, "None", CheckReturns(api_name))
    /\ UNCHANGED <<now, api_keys, last_key_rotation, served, evicted, tasks, fetches, pipelineVars>>

\* get_api_key: what it leaves (KeyReturned is what it returns)
KeysGot(api_name) ==
    IF Rotates(api_name, now)
    THEN [api_keys EXCEPT ![api_name] = KeysAfterGet(api_name, now)]
    ELSE api_keys

RotationGot(api_name) ==
    IF Rotates(api_name, now)
    THEN [a \in DOMAIN last_key_rotation \cup {api_name} |->
             IF a = api_name THEN now ELSE last_key_rotation[a]]
    ELSE last_key_rotation

ServedGot(api_name) ==
    [served EXCEPT ![api_name] =
        ServedAfter(@, KeysAfterGet(api_name, now), KeyReturned(api_name, now),
                    Rotates(api_name, now))]

get_api_key(api_name) ==
    /\ api_keys' = KeysGot(api_name)
    /\ last_key_rotation' = RotationGot(api_name)
    /\ served' = ServedGot(api_name)
    /\ ret' = Returned("get_api_key", api_name, "None", KeyReturned(api_name, now))
    /\ UNCHANGED <<now, quotas, granted, evicted, tasks, fetches, pipelineVars>>

register_api_key(api_name, key_id, key_value) ==
    /\ api_keys' = [a \in DOMAIN api_keys \cup {api_name} |->
                       IF a = api_name THEN SetKey(KeysOf(api_name), key_id, key_value)
                       ELSE api_keys[a]]
    /\ ret' = Returned("register_api_key", api_name, key_id, "None")
    /\ served' = [served EXCEPT ![api_name] = NothingServed]
    /\ evicted' = [evicted EXCEPT ![api_name] =
                       IF @.id = key_id \/ @.value = key_value THEN NoEntry ELSE @]
    /\ UNCHANGED <<now, quotas, last_key_rotation, granted, tasks, fetches, pipelineVars>>

\* handle_rate_limit_error: what it returns (None) or raises, and what it leaves
ReduceReturns(api_name) ==
    IF QuotaToReduce(api_name) /\ api_name \notin DOMAIN quotas THEN "KeyError" ELSE "None"

QuotasReducedEverywhere(api_name) ==
    IF QuotaToReduce(api_name) /\ api_name \in DOMAIN quotas
    THEN [b \in DOMAIN quotas |-> ReducedQuota(quotas[b])]
    ELSE quotas

QuotasReduced(api_name) ==
    IF QuotaToReduce(api_name) /\ api_name \in DOMAIN quotas
    THEN [quotas EXCEPT ![api_name] = ReducedQuota(@)]
    ELSE quotas

handle_rate_limit_error(api_name) ==
    /\ quotas' = QuotasReduced(api_name)
    /\ ret' = Returned("handle_rate_limit_error", api_name, "None", ReduceReturns(api_name))
    /\ UNCHANGED <<now, api_keys, last_key_rotation, granted, served, evicted, tasks, fetches, pipelineVars>>

\* handle_auth_error: what it returns (None) or raises, and what it leaves
Removable(api_name, key_id) ==
    api_name \in DOMAIN api_keys /\ key_id \in KeyIdsOf(api_keys[api_name])

RemoveReturns(api_name, key_id) ==
    IF KeyToRemove(api_name, key_id) /\ ~Removable(api_name, key_id) THEN "KeyError" ELSE "None"

KeysRemoved(api_name, key_id) ==
    IF KeyToRemove(api_name, key_id) /\ Removable(api_name, key_id)
    THEN [api_keys EXCEPT ![api_name] = DelKey(@, key_id)]
    ELSE api_keys

\* served and evicted after the removal
ObserveRemoval(api_name, key_id) ==
    IF KeyToRemove(api_name, key_id) /\ Removable(api_name, key_id)
    THEN /\ served' = [served EXCEPT ![api_name] = NothingServed]
         /\ \E e \in {evicted[api_name]} \cup
                       {k \in Range(api_keys[api_name]) : k.id = key_id} :
               e # NoEntry /\ evicted' = [evicted EXCEPT ![api_name] = e]
    ELSE UNCHANGED <<served, evicted>>

handle_auth_error(api_name, key_id) ==
    /\ api_keys' = KeysRemoved(api_name, key_id)
    /\ ObserveRemoval(api_name, key_id)
    /\ ret' = Returned("handle_auth_error", api_name, key_id, RemoveReturns(api_name, key_id))
    /\ UNCHANGED <<now, quotas, last_key_rotation, granted, tasks, fetches, pipelineVars>>

-----------------------------------------------------------------------------
(* The clock *)

ClockAllows(d) ==
    \/ d = SECOND_WINDOW /\ now % MINUTE_WINDOW < MaxSeconds
    \/ d = MINUTE_WINDOW /\ (now % KEY_ROTATION_INTERVAL) \div MINUTE_WINDOW < MaxMinutes
    \/ d = KEY_ROTATION_INTERVAL /\ (now % DAY_WINDOW) \div KEY_ROTATION_INTERVAL < MaxHours
    \/ d = DAY_WINDOW /\ now \div DAY_WINDOW < MaxDays

-----------------------------------------------------------------------------
(* The manager called directly, one call after another *)

\* One run exercises one configured source: the others keep their initial
\* quota and hold no key.
OnlyQuotaSource(api_name) ==
    \A b \in DOMAIN quotas \ {api_name} : quotas[b] = APIQuota(API_QUOTAS[b], 0)

OnlyKeySource(api_name) ==
    \A b \in DOMAIN api_keys \ {api_name} : api_keys[b] = << >>

CanMakeRequest ==
    \E a \in ApiNames :
        /\ a \in DOMAIN quotas => OnlyQuotaSource(a)
        /\ can_make_request(a)

HandleRateLimitError ==
    \E a \in ApiNames :
        /\ a \in DOMAIN quotas => OnlyQuotaSource(a)
        /\ handle_rate_limit_error(a)

GetApiKey == \E a \in ApiNames : get_api_key(a)

RegisterApiKey ==
    \E a \in {"newsapi", "test_api"}, k \in KeyIds, v \in KeyValues :
        /\ OnlyKeySource(a)
        /\ (k \in KeyIdsOf(KeysOf(a)) \/ Len(KeysOf(a)) < MaxKeys)
        /\ register_api_key(a, k, v)

HandleAuthError == \E a \in ApiNames, k \in KeyIds : handle_auth_error(a, k)

\* Quota calls; the clock moves by the second, the minute and the day
TickQuota ==
    /\ \E d \in {SECOND_WINDOW, MINUTE_WINDOW, DAY_WINDOW} :
          /\ ClockAllows(d)
          /\ now' = now + d
    /\ UNCHANGED <<quotas, api_keys, last_key_rotation, ret, granted, served, evicted, tasks, fetches, pipelineVars>>

NextQuota ==
    \/ CanMakeRequest
    \/ HandleRateLimitError
    \/ TickQuota

SpecQuota == Init /\ [][NextQuota]_vars

\* Quota checks at the configured limits, with the time of every True logged
InitLogged ==
    /\ ConstructedWith(LoggedGrants)
    /\ dedup = NoDedup /\ ranked = NoRanked /\ standardized = NoStandardized

\* The clock moves by a second in the first seconds and the last second of
\* a minute, by a minute, and by a second less than a minute, up to
\* MaxMinutes minutes and MaxSeconds seconds
TickLogged ==
    /\ \E d \in {SECOND_WINDOW, MINUTE_WINDOW - SECOND_WINDOW, MINUTE_WINDOW} :
          /\ d = SECOND_WINDOW =>
                \/ now % MINUTE_WINDOW < MaxSeconds
                \/ now % MINUTE_WINDOW = MINUTE_WINDOW - SECOND_WINDOW
          /\ now + d <= MaxMinutes * MINUTE_WINDOW + MaxSeconds
          /\ now' = now + d
    /\ UNCHANGED <<quotas, api_keys, last_key_rotation, ret, granted, served, evicted, tasks, fetches, pipelineVars>>

NextLogged ==
    \/ CanMakeRequest
    \/ TickLogged

SpecLogged == InitLogged /\ [][NextLogged]_vars

\* Key calls; the clock moves by the hour
TickHour ==
    /\ ClockAllows(KEY_ROTATION_INTERVAL)
    /\ now' = now + KEY_ROTATION_INTERVAL
    /\ UNCHANGED <<quotas, api_keys, last_key_rotation, ret, granted, served, evicted, tasks, fetches, pipelineVars>>

NextKeys ==
    \/ GetApiKey
    \/ RegisterApiKey
    \/ HandleAuthError
    \/ TickHour

SpecKeys == Init /\ [][NextKeys]_vars

-----------------------------------------------------------------------------
(* BaseFetcher.make_request, one coroutine per task *)

\* A coroutine runs without interruption from one await to the next: the
\* admission check and the key lookup up to the request, then the handling
\* of the response.
TaskIds == 1..MaxTasks

Statuses == {200, FORBIDDEN, TOO_MANY_REQUESTS}

\* The request goes out with the key get_api_key returned
Sent(task, api_name) ==
    [task EXCEPT !.pc = "requesting", !.api_name = api_name, !.asked = now,
                 !.admitted = "True", !.status = 0, !.result = "None",
                 !.api_key = KeyReturned(api_name, now),
                 !.key_id = IF KeyReturned(api_name, now) = "None" THEN "None"
                            ELSE Head(KeysAfterGet(api_name, now)).id]

SentUnadmitted(task, api_name) ==
    [Sent(task, api_name) EXCEPT !.admitted = "False"]

Waiting(task, api_name) ==
    [task EXCEPT !.pc = "sleeping", !.api_name = api_name, !.asked = now,
                 !.admitted = "False", !.wake = now + ADMISSION_WAIT,
                 !.status = 0, !.result = "None"]

GaveUp(task) ==
    [task EXCEPT !.pc = "done", !.asked = now, !.admitted = "False",
                 !.result = "Rate limit exceeded even after waiting"]

\* fetch_with_retry once the make_request call of its current attempt has
\* taken a step from task to task2: the call is still running, or it returned
\* a body, which is returned, or it raised, which is caught: the last attempt
\* returns None, any other sleeps (attempt + 1) * 5 seconds before the next.
\* checks and waits count the admission checks and the admission waits of
\* the whole fetch.
FetchCounted(f, task, task2) ==
    [f EXCEPT !.checks = @ + (IF task.pc # "requesting" THEN 1 ELSE 0),
              !.waits = @ + (IF task2.pc = "sleeping" THEN 1 ELSE 0)]

FetchAfterOneMore(f, task, task2) ==
    IF f.max_retries = 0 THEN f
    ELSE IF task2.pc # "done" THEN [FetchCounted(f, task, task2) EXCEPT !.pc = "running"]
    ELSE IF task2.result = "body"
         THEN [FetchCounted(f, task, task2) EXCEPT !.pc = "returned", !.returned = "body"]
    ELSE IF f.attempt = f.max_retries
         THEN [FetchCounted(f, task, task2) EXCEPT !.pc = "returned", !.returned = "None"]
    ELSE [FetchCounted(f, task, task2) EXCEPT !.pc = "backoff",
                                             !.wake = now + (f.attempt + 1) * BACKOFF_UNIT]

FetchAfterHangs(f, task, task2) ==
    IF f.max_retries = 0 THEN f
    ELSE IF task2.pc # "done" THEN [FetchCounted(f, task, task2) EXCEPT !.pc = "running"]
    ELSE IF task2.result = "body"
         THEN [FetchCounted(f, task, task2) EXCEPT !.pc = "returned", !.returned = "body"]
    ELSE [FetchCounted(f, task, task2) EXCEPT !.pc = "running"]

FetchAfter(f, task, task2) ==
    IF f.max_retries = 0 THEN f
    ELSE IF task2.pc # "done" THEN [FetchCounted(f, task, task2) EXCEPT !.pc = "running"]
    ELSE IF task2.result = "body"
         THEN [FetchCounted(f, task, task2) EXCEPT !.pc = "returned", !.returned = "body"]
    ELSE IF f.attempt = f.max_retries - 1
         THEN [FetchCounted(f, task, task2) EXCEPT !.pc = "returned", !.returned = "None"]
    ELSE [FetchCounted(f, task, task2) EXCEPT !.pc = "backoff",
                                             !.wake = now + (f.attempt + 1) * BACKOFF_UNIT]

\* can_make_request, then either the request or what the denial leads to
Admission(t, api_name, denied) ==
    /\ quotas' = QuotasChecked(api_name)
    /\ granted' = GrantedChecked(api_name)
    /\ IF CheckReturns(api_name) = "True"
       THEN /\ api_keys' = KeysGot(api_name)
            /\ last_key_rotation' = RotationGot(api_name)
            /\ served' = ServedGot(api_name)
            /\ tasks' = [tasks EXCEPT ![t] = Sent(@, api_name)]
       ELSE /\ tasks' = [tasks EXCEPT ![t] = denied]
            /\ UNCHANGED <<api_keys, last_key_rotation, served>>
    /\ UNCHANGED <<now, ret, evicted, pipelineVars>>

make_request(t, api_name) ==
    /\ tasks[t].pc = "idle"
    /\ fetches[t].pc = "none"
    /\ Admission(t, api_name, Waiting(tasks[t], api_name))
    /\ UNCHANGED fetches

after_sleep(t) ==
    /\ tasks[t].pc = "sleeping"
    /\ now >= tasks[t].wake
    /\ Admission(t, tasks[t].api_name, GaveUp(tasks[t]))
    /\ fetches' = [fetches EXCEPT ![t] = FetchAfter(@, tasks[t], tasks'[t])]

ResponseQuotasIgnored(api_name, status) == quotas

ResponseQuotas(api_name, status) ==
    IF status = TOO_MANY_REQUESTS THEN QuotasReduced(api_name) ELSE quotas

ResponseResult(status, parsed) ==
    IF status = FORBIDDEN THEN "Authentication failed"
    ELSE IF status = TOO_MANY_REQUESTS THEN "Rate limit exceeded"
    ELSE IF parsed THEN "body"
    ELSE "Request failed"

\* The response arrives: 403, 429, or anything else, whose body parses or not
response(t, status, parsed) ==
    /\ tasks[t].pc = "requesting"
    /\ quotas' = ResponseQuotas(tasks[t].api_name, status)
    /\ IF status = FORBIDDEN
       THEN /\ api_keys' = KeysRemoved(tasks[t].api_name, "current")
            /\ ObserveRemoval(tasks[t].api_name, "current")
       ELSE UNCHANGED <<api_keys, served, evicted>>
    /\ tasks' = [tasks EXCEPT ![t] = [@ EXCEPT !.pc = "done", !.status = status,
                                                !.result = ResponseResult(status, parsed)]]
    /\ fetches' = [fetches EXCEPT ![t] = FetchAfter(@, tasks[t], tasks'[t])]
    /\ UNCHANGED <<now, last_key_rotation, ret, granted, pipelineVars>>

\* session.get raises: no response
request_error(t) ==
    /\ tasks[t].pc = "requesting"
    /\ tasks' = [tasks EXCEPT ![t] = [@ EXCEPT !.pc = "done", !.result = "Request failed"]]
    /\ fetches' = [fetches EXCEPT ![t] = FetchAfter(@, tasks[t], tasks'[t])]
    /\ UNCHANGED <<now, quotas, api_keys, last_key_rotation, ret, granted, served, evicted, pipelineVars>>

\* fetch_with_retry(url, max_retries): the first attempt
fetch_with_retry(t, api_name, max_retries) ==
    /\ tasks[t].pc = "idle"
    /\ fetches[t].pc = "none"
    /\ Admission(t, api_name, Waiting(tasks[t], api_name))
    /\ fetches' = [fetches EXCEPT ![t] =
                       FetchAfter([@ EXCEPT !.max_retries = max_retries], tasks[t], tasks'[t])]

\* The sleep between two attempts is over: the next attempt
next_attempt(t) ==
    /\ fetches[t].pc = "backoff"
    /\ now >= fetches[t].wake
    /\ Admission(t, tasks[t].api_name, Waiting(tasks[t], tasks[t].api_name))
    /\ fetches' = [fetches EXCEPT ![t] =
                       FetchAfter([@ EXCEPT !.attempt = @ + 1], tasks[t], tasks'[t])]

\* Keys are registered before the first request is made, for the source that
\* requires one
RegisterAtStartup ==
    /\ \A t \in TaskIds : tasks[t].pc = "idle"
    /\ \E k \in KeyIds :
          /\ k \in KeyIdsOf(KeysOf("newsapi")) \/ Len(KeysOf("newsapi")) < MaxKeys
          /\ register_api_key("newsapi", k, "test_value_1")

\* One run requests from one source
MakeRequest ==
    \E t \in TaskIds, a \in ApiNames :
        /\ a \in DOMAIN quotas => OnlyQuotaSource(a)
        /\ \A u \in TaskIds : tasks[u].api_name \in {"None", a}
        /\ make_request(t, a)

AfterSleep == \E t \in TaskIds : after_sleep(t)

Response == \E t \in TaskIds, status \in Statuses, parsed \in BOOLEAN : response(t, status, parsed)

RequestError == \E t \in TaskIds : request_error(t)

\* The clock moves by the second and the minute
TickFetch ==
    /\ \E d \in {SECOND_WINDOW, MINUTE_WINDOW} :
          /\ ClockAllows(d)
          /\ now' = now + d
    /\ UNCHANGED <<quotas, api_keys, last_key_rotation, ret, granted, served, evicted, tasks, fetches, pipelineVars>>

NextFetch ==
    \/ RegisterAtStartup
    \/ MakeRequest
    \/ AfterSleep
    \/ Response
    \/ RequestError
    \/ TickFetch

SpecFetch == Init /\ [][NextFetch]_vars

\* Fetches with retries, all from one source
FetchWithRetry ==
    \E t \in TaskIds, a \in ApiNames, n \in 1..MaxRetries :
        /\ a \in DOMAIN quotas => OnlyQuotaSource(a)
        /\ \A u \in TaskIds : tasks[u].api_name \in {"None", a}
        /\ fetch_with_retry(t, a, n)

NextAttempt == \E t \in TaskIds : next_attempt(t)

NextRetry ==
    \/ FetchWithRetry
    \/ NextAttempt
    \/ AfterSleep
    \/ Response
    \/ RequestError
    \/ TickFetch

SpecRetry == Init /\ [][NextRetry]_vars

\* One fetch with up to MaxAttempts attempts, and no other task
FetchAlone ==
    \E a \in DOMAIN quotas, n \in 1..MaxAttempts :
        /\ \A u \in TaskIds : tasks[u].pc = "idle" /\ fetches[u].pc = "none"
        /\ fetch_with_retry(1, a, n)

\* Another caller of the manager asks for the same source while the fetch waits
CheckedMeanwhile ==
    /\ fetches[1].pc = "backoff"
    /\ can_make_request(tasks[1].api_name)

NextBackoff ==
    \/ FetchAlone
    \/ CheckedMeanwhile
    \/ NextAttempt
    \/ AfterSleep
    \/ Response
    \/ RequestError
    \/ TickFetch

SpecBackoff == Init /\ [][NextBackoff]_vars

-----------------------------------------------------------------------------
(* The manager called with any source and any key id, the clock stopped *)

RegisterTestKey ==
    \E a \in {"newsapi", "test_api"} :
        /\ OnlyKeySource(a)
        /\ register_api_key(a, "test_key_1", "test_value_1")

\* APIManager(): __new__ hands out the one instance, __init__ returns at once
\* when it is initialised and builds quotas, keys and rotation times otherwise
InitializedNever(manager) == FALSE

Initialized(manager) == manager.initialized

APIManager ==
    /\ singleton' = [instance |-> IF singleton.instance = 0 THEN 1 ELSE singleton.instance,
                     initialized |-> TRUE]
    /\ quotas' = IF Initialized(singleton) THEN quotas
                 ELSE [a \in DOMAIN API_QUOTAS |-> APIQuota(API_QUOTAS[a], 0)]
    /\ api_keys' = IF Initialized(singleton) THEN api_keys ELSE << >>
    /\ last_key_rotation' = IF Initialized(singleton) THEN last_key_rotation ELSE << >>
    /\ ret' = Returned("APIManager", "None", "None", "instance")
    /\ UNCHANGED <<now, granted, served, evicted, tasks, fetches, run, dedup, ranked,
                   standardized, models, sessions>>

NextManager ==
    \/ APIManager
    \/ CanMakeRequest
    \/ GetApiKey
    \/ RegisterTestKey
    \/ HandleRateLimitError
    \/ HandleAuthError

SpecManager == Init /\ [][NextManager]_vars

\* The manager called for every source in turn, so that the sources differ
\* from their initial states together, the clock stopped
CanMakeRequestAny == \E a \in ApiNames : can_make_request(a)

HandleRateLimitErrorAny == \E a \in ApiNames : handle_rate_limit_error(a)

RegisterAnyKey ==
    \E a \in {"newsapi", "test_api"}, k \in {"test_key_1", "current"} :
        /\ k \in KeyIdsOf(KeysOf(a)) \/ Len(KeysOf(a)) < MaxKeys
        /\ register_api_key(a, k, "test_value_1")

\* the key id make_request passes
HandleAuthErrorCurrent == \E a \in ApiNames : handle_auth_error(a, "current")

NextSources ==
    \/ CanMakeRequestAny
    \/ HandleRateLimitErrorAny
    \/ GetApiKey
    \/ RegisterAnyKey
    \/ HandleAuthErrorCurrent

SpecSources == Init /\ [][NextSources]_vars

-----------------------------------------------------------------------------
(* The news pipeline: src/routes.py, src/processors.py, src/fetchers.py *)

\* An article as a provider returns it: its title and content (either may be
\* empty), the cosine similarity of its text to the query in hundredths, and
\* the classifier's signed confidence for its title and content in hundredths.
Article(title, content, similarity, title_score, content_score) ==
    [title |-> title, content |-> content, similarity |-> similarity,
     title_score |-> title_score, content_score |-> content_score]

\* What one fetcher may return: [] (disabled, timeout, error: every failure
\* is caught inside the fetcher), one relevant article, one article of the
\* same title that is not relevant, or an article without title followed by
\* one without content.
SourceResults ==
    {<< >>,
     <<Article("t1", "c1", 30, 90, -80)>>,
     <<Article("t1", "c2", 0, -60, 70)>>,
     <<Article("", "c3", 40, 50, 50), Article("t2", "", 0, 10, 10)>>}

\* The order of the futures, under the names of process_articles and
\* failed_sources
Sources == <<"NewsAPI", "Guardian", "Aylien", "GNews", "NYT", "Mediastack", "NewsAPI.ai">>

\* process_articles: Aylien and GNews keep every article as it is; the
\* others take the content, or a second field of the item when the content
\* is empty (webTitle, lead_paragraph, description: "fallback" here), drop the
\* item when that is empty or blank, and replace an empty title
KeepsEmpty(source) == source \in {"Aylien", "GNews"}

HasFallback(source) == source \in {"NewsAPI", "Guardian", "NYT", "NewsAPI.ai"}

Fallback(article, source) ==
    IF HasFallback(source) /\ "fallback" \in DOMAIN article THEN article.fallback ELSE ""

ContentOf(article, source) ==
    IF article.content # "" \/ KeepsEmpty(source)
    THEN article.content ELSE Fallback(article, source)

\* not content.strip()
Blank(content) == content \in {"", " "}

\* the title, or webTitle where the item has one, or the default
TitleOf(article, source) ==
    IF article.title # "" \/ KeepsEmpty(source) THEN article.title
    ELSE IF source \in {"NewsAPI", "Guardian"} /\ "fallback" \in DOMAIN article
    THEN article.fallback
    ELSE "No title available"

Standardized(article, source) ==
    [title |-> TitleOf(article, source),
     content |-> ContentOf(article, source),
     source |-> source,
     similarity |-> article.similarity,
     title_score |-> article.title_score,
     content_score |-> article.content_score,
     sentiment_score |-> 0]

process_articles(articles, source) ==
    LET kept == SelectSeq(articles,
                          LAMBDA a : ~Blank(ContentOf(a, source)) \/ KeepsEmpty(source))
    IN  [i \in 1..Len(kept) |-> Standardized(kept[i], source)]

RECURSIVE Concat(_)
Concat(lists) == IF lists = << >> THEN << >> ELSE Head(lists) \o Concat(Tail(lists))

\* article['sentiment_score'] = 0.3 * title_score + 0.7 * content_score, in
\* thousandths
Scored(articles) ==
    [i \in 1..Len(articles) |->
        [articles[i] EXCEPT !.sentiment_score =
            3 * articles[i].title_score + 7 * articles[i].content_score]]

\* Group by source in order of first appearance and keep the first
\* MAX_ARTICLES_PER_SOURCE of each group; the source of an article is the
\* name of its provider, so the groups are the providers' lists in order
Capped(std_lists) ==
    Concat([i \in 1..Len(std_lists) |->
               SubSeq(std_lists[i], 1,
                      IF Len(std_lists[i]) < MAX_ARTICLES_PER_SOURCE
                      THEN Len(std_lists[i]) ELSE MAX_ARTICLES_PER_SOURCE)])

RECURSIVE UniqueFromFirstDuplicate(_, _)
UniqueFromFirstDuplicate(articles, seen_titles) ==
    IF articles = << >> THEN << >>
    ELSE IF Head(articles).title # "" /\ Head(articles).title \notin seen_titles
         THEN <<Head(articles)>>
                  \o UniqueFromFirstDuplicate(Tail(articles),
                                              seen_titles \cup {Head(articles).title})
         ELSE Tail(articles)

RECURSIVE UniqueFromKeepsUntitled(_, _)
UniqueFromKeepsUntitled(articles, seen_titles) ==
    IF articles = << >> THEN << >>
    ELSE IF Head(articles).title \notin seen_titles
         THEN <<Head(articles)>>
                  \o UniqueFromKeepsUntitled(Tail(articles),
                                             seen_titles \cup {Head(articles).title})
         ELSE UniqueFromKeepsUntitled(Tail(articles), seen_titles)

RECURSIVE UniqueFrom(_, _)
UniqueFrom(articles, seen_titles) ==
    IF articles = << >> THEN << >>
    ELSE IF Head(articles).title # "" /\ Head(articles).title \notin seen_titles
         THEN <<Head(articles)>>
                  \o UniqueFrom(Tail(articles), seen_titles \cup {Head(articles).title})
         ELSE UniqueFrom(Tail(articles), seen_titles)

remove_duplicates(articles) == UniqueFrom(articles, {})

\* filter_relevant_articles.  top_n and relevance_threshold are optional:
\* 0 stands for both 0 and None, which "or" treats alike.  The similarity of
\* an article's text to the query is the article's attribute, in hundredths.
ShareCount(article) ==
    IF "share_count" \in DOMAIN article THEN article.share_count ELSE 0

Text(article) == IF article.content # "" THEN article.content ELSE article.title

RECURSIVE MaxShareCount(_)
MaxShareCount(articles) ==
    IF articles = << >> THEN 0
    ELSE IF Len(articles) = 1 THEN ShareCount(Head(articles))
    ELSE Max(ShareCount(Head(articles)), MaxShareCount(Tail(articles)))

\* A quotient is kept as numerator and denominator
NormalizedShareCountUnguarded(share_count, max_share_count) ==
    [num |-> share_count, den |-> max_share_count]

NormalizedShareCount(share_count, max_share_count) ==
    IF max_share_count > 0
    THEN [num |-> share_count, den |-> max_share_count]
    ELSE [num |-> 0, den |-> 1]

\* similarity * weight_relevance + normalized_share_count * weight_popularity
CombinedScore(similarity, normalized_share_count) ==
    [num |-> WEIGHT_RELEVANCE * similarity * normalized_share_count.den
                 + WEIGHT_POPULARITY * 100 * normalized_share_count.num,
     den |-> 1000 * normalized_share_count.den]

AtLeast(score, other) == score.num * other.den >= other.num * score.den

AboveThresholdAll(articles, relevance_threshold) == articles

AboveThreshold(articles, relevance_threshold) ==
    SelectSeq(articles, LAMBDA a : a.similarity >= relevance_threshold)

\* article_scores: the articles at or above the threshold with their scores
ArticleScores(articles, relevance_threshold) ==
    LET kept == AboveThreshold(articles, relevance_threshold)
        max_share_count == MaxShareCount(articles)
    IN  [i \in 1..Len(kept) |->
            [article |-> kept[i],
             normalized_share_count |->
                 NormalizedShareCount(ShareCount(kept[i]), max_share_count),
             combined_score |->
                 CombinedScore(kept[i].similarity,
                               NormalizedShareCount(ShareCount(kept[i]), max_share_count))]]

\* sorted(article_scores, key=score, reverse=True): entries of equal score
\* keep their order
InsertedBeforeTies(sorted_scores, entry) ==
    LET before == SelectSeq(sorted_scores,
                            LAMBDA x : ~AtLeast(entry.combined_score, x.combined_score))
        after == SelectSeq(sorted_scores,
                           LAMBDA x : AtLeast(entry.combined_score, x.combined_score))
    IN  before \o <<entry>> \o after

Inserted(sorted_scores, entry) ==
    LET before == SelectSeq(sorted_scores,
                            LAMBDA x : AtLeast(x.combined_score, entry.combined_score))
        after == SelectSeq(sorted_scores,
                           LAMBDA x : ~AtLeast(x.combined_score, entry.combined_score))
    IN  before \o <<entry>> \o after

SortedInInputOrder(article_scores) == article_scores

RECURSIVE Sorted(_)
Sorted(article_scores) ==
    IF article_scores = << >> THEN << >>
    ELSE Inserted(Sorted(SubSeq(article_scores, 1, Len(article_scores) - 1)),
                  article_scores[Len(article_scores)])

FirstN(seq, n) == SubSeq(seq, 1, IF Len(seq) < n THEN Len(seq) ELSE n)

TopN(top_n) == IF top_n = 0 THEN DEFAULT_TOP_N ELSE top_n

Threshold(relevance_threshold) ==
    IF relevance_threshold = 0 THEN RELEVANCE_THRESHOLD ELSE relevance_threshold

filter_relevant_articles(articles, top_n, relevance_threshold) ==
    LET sorted_articles == Sorted(ArticleScores(articles, Threshold(relevance_threshold)))
    IN  IF \A i \in 1..Len(articles) : Text(articles[i]) = ""
        THEN FirstN(articles, TopN(top_n))
        ELSE FirstN([i \in 1..Len(sorted_articles) |-> sorted_articles[i].article],
                    TopN(top_n))

\* summarize_articles catches every failure of the summarizer and returns a
\* string that starts with "Error"
summarize_articles(summarizer) ==
    IF summarizer = "ok" THEN "summary" ELSE "Error generating summary"

\* The three shapes _fetch_and_process_data returns
ErrorTuple(message) ==
    [shape |-> "tuple", summary |-> "None", articles |-> << >>, error |-> message]

PartialTupleUnmarked(summary, articles) ==
    [shape |-> "tuple", summary |-> summary, articles |-> articles, error |-> "None"]

PartialTuple(summary, articles) ==
    [shape |-> "tuple", summary |-> summary, articles |-> articles,
     error |-> "Showing results from available sources"]

ResponseDict(summary, articles) ==
    [shape |-> "dict", summary |-> summary, articles |-> articles, error |-> "None"]

FailedSourcesButLast(fetched) ==
    LET names == [i \in 1..Len(Sources) - 1 |->
                     IF fetched[i] = << >> THEN <<Sources[i]>> ELSE << >>]
    IN  Concat(names)

\* failed_sources: the providers whose list is empty, in the order of the checks
FailedSources(fetched) ==
    LET names == [i \in 1..Len(Sources) |-> IF fetched[i] = << >> THEN <<Sources[i]>> ELSE << >>]
    IN  Concat(names)

\* The articles that reach remove_duplicates
CappedArticles(fetched) ==
    Capped([i \in 1..Len(Sources) |-> Scored(process_articles(fetched[i], Sources[i]))])

\* The sentiment analyzer is called, and may raise, when there is an article
\* to score; the vectorizer when there is a text to vectorize
ClassifierRaises(fetched, classifier) ==
    /\ classifier = "raises"
    /\ \E i \in 1..Len(Sources) : process_articles(fetched[i], Sources[i]) # << >>

VectorizerRaises(articles, vectorizer) ==
    /\ vectorizer = "raises"
    /\ \E i \in 1..Len(articles) : articles[i].content # "" \/ articles[i].title # ""

\* _fetch_and_process_data from the fetchers' lists to the return, with the
\* stages it reached
Processed(fetched, classifier, vectorizer, summarizer) ==
    LET failed_sources == FailedSources(fetched)
        unique_articles == remove_duplicates(CappedArticles(fetched))
        relevant_articles == filter_relevant_articles(unique_articles, 0, 0)
        summary == summarize_articles(summarizer)
        at(stages, failed, relevant, result) ==
            [reached |-> stages, failed_sources |-> failed, relevant |-> relevant,
             result |-> result]
    IN  IF \A i \in 1..Len(Sources) : fetched[i] = << >>
        THEN at({}, << >>, << >>, ErrorTuple("No articles found"))
        ELSE IF ClassifierRaises(fetched, classifier)
        THEN at({}, << >>, << >>, ErrorTuple("An unexpected error occurred"))
        ELSE IF VectorizerRaises(unique_articles, vectorizer)
        THEN at({"remove_duplicates"}, failed_sources, << >>,
                ErrorTuple("An unexpected error occurred"))
        ELSE IF relevant_articles = << >>
        THEN at({"remove_duplicates", "filter_relevant_articles"}, failed_sources, << >>,
                ErrorTuple("No relevant articles found"))
        ELSE IF failed_sources # << >>
        THEN at({"remove_duplicates", "filter_relevant_articles", "summarize_articles"},
                failed_sources, relevant_articles,
                PartialTuple(summary, relevant_articles))
        ELSE IF summary = "Error generating summary"
        THEN at({"remove_duplicates", "filter_relevant_articles", "summarize_articles"},
                failed_sources, relevant_articles,
                ErrorTuple("Failed to generate a summary"))
        ELSE at({"remove_duplicates", "filter_relevant_articles", "summarize_articles"},
                failed_sources, relevant_articles,
                ResponseDict(summary, relevant_articles))

\* /data on the result: 200 with the articles, and the error of a tuple as
\* warning; 400 with the error of a tuple without articles; 404 otherwise
Responded(result) ==
    IF result.articles # << >>
    THEN [status |-> HTTP_OK,
          summary |-> result.summary,
          articles |-> result.articles,
          warning |-> result.error,
          error |-> "None"]
    ELSE IF result.error # "None"
    THEN [status |-> HTTP_BAD_REQUEST, summary |-> "None", articles |-> << >>,
          warning |-> "None", error |-> result.error]
    ELSE [status |-> HTTP_NOT_FOUND, summary |-> "None", articles |-> << >>,
          warning |-> "None", error |-> "No articles found."]

\* The event of a request: the form field, the "event" of the JSON body or
\* the query argument, the first that is neither missing ("None") nor empty.
\* The JSON body is absent or an object without event ("None"), an object
\* with an event, or a value that is no object and not empty, on which .get
\* raises AttributeError.
Truthy(value) == value \notin {"None", ""}

EventOf(request) ==
    IF Truthy(request.form) THEN request.form
    ELSE IF request.json = "non-object" THEN "AttributeError"
    ELSE IF Truthy(request.json) THEN request.json
    ELSE request.args

ErrorResponse(status, message) ==
    [status |-> status, summary |-> "None", articles |-> << >>, warning |-> "None",
     error |-> message]

\* POST /data: without event the route answers 400 at once, and 500 when
\* reading the event raised; with an event the pipeline runs on what the
\* fetchers, the classifier, the vectorizer and the summarizer do, and the
\* route answers.  A request leaves nothing behind that the next one reads,
\* so one request is followed.
get_news_data(request, fetched, classifier, vectorizer, summarizer) ==
    /\ run.stage = "idle"
    /\ run' =
           IF EventOf(request) = "AttributeError"
           THEN [NoRun EXCEPT !.stage = "returned", !.request = request,
                              !.response = ErrorResponse(HTTP_INTERNAL_ERROR,
                                               "An internal server error occurred")]
           ELSE IF ~Truthy(EventOf(request))
           THEN [NoRun EXCEPT !.stage = "returned", !.request = request,
                              !.response = ErrorResponse(HTTP_BAD_REQUEST,
                                               "Please enter a news event to search for.")]
           ELSE [stage |-> "returned",
                 request |-> request,
                 invoked |-> TRUE,
                 fetched |-> fetched,
                 classifier |-> classifier,
                 vectorizer |-> vectorizer,
                 summarizer |-> summarizer,
                 processed |-> Processed(fetched, classifier, vectorizer, summarizer),
                 response |-> Responded(Processed(fetched, classifier, vectorizer,
                                                  summarizer).result)]
    /\ UNCHANGED <<now, quotas, api_keys, last_key_rotation, ret, granted, served, evicted,
                   tasks, fetches, dedup, unitVars>>

\* The requests: every combination of the three places an event may be in
Requests ==
    [form : {"None", "", "event"},
     json : {"None", "", "event", "non-object"},
     args : {"None", "", "event"}]

FormRequest == [form |-> "event", json |-> "None", args |-> "None"]

\* Every source returns nothing, or every source returns a relevant article
AllSources(articles) == [i \in 1..Len(Sources) |-> articles]

GetNewsData ==
    /\ run.stage = "idle"
    /\ \/ \E fetched \in [1..Len(Sources) -> SourceResults],
             classifier \in {"ok", "raises"},
             vectorizer \in {"ok", "raises"},
             summarizer \in {"ok", "error"} :
              get_news_data(FormRequest, fetched, classifier, vectorizer, summarizer)
       \/ \E request \in Requests,
             fetched \in {AllSources(<< >>), AllSources(<<Article("t1", "c1", 30, 90, -80)>>)} :
              get_news_data(request, fetched, "ok", "ok", "ok")

NextPipeline == GetNewsData

SpecPipeline == Init /\ [][NextPipeline]_vars

\* The two other callers of cached_fetch_and_process_data.  POST / renders
\* the summary, articles and error of a result that is a tuple of three, and
\* the page of a GET otherwise; _get_trending_summaries records, per topic,
\* the summary and the first TRENDING_ARTICLES articles of a result that is a
\* tuple with a summary, and "No summary available" otherwise.
EmptyPage ==
    [status |-> HTTP_OK, summary |-> "False", articles |-> << >>, warning |-> "None",
     error |-> "None"]

Rendered(result) ==
    IF result.shape = "tuple"
    THEN [status |-> HTTP_OK, summary |-> result.summary, articles |-> result.articles,
          warning |-> "None", error |-> result.error]
    ELSE EmptyPage

TopicSummary(result) ==
    IF result.shape = "tuple" /\ Truthy(result.summary)
    THEN [status |-> HTTP_OK, summary |-> result.summary,
          articles |-> FirstN(result.articles, TRENDING_ARTICLES),
          warning |-> "None", error |-> "None"]
    ELSE [EmptyPage EXCEPT !.summary = "No summary available"]

Consumed(stage, request, fetched, summarizer, page) ==
    [stage |-> stage,
     request |-> request,
     invoked |-> TRUE,
     fetched |-> fetched,
     classifier |-> "ok",
     vectorizer |-> "ok",
     summarizer |-> summarizer,
     processed |-> Processed(fetched, "ok", "ok", summarizer),
     response |-> page]

index(method, event, fetched, summarizer) ==
    /\ run.stage = "idle"
    /\ run' =
           IF method = "POST" /\ Truthy(event)
           THEN Consumed("rendered", [form |-> event, json |-> "None", args |-> "None"],
                         fetched, summarizer,
                         Rendered(Processed(fetched, "ok", "ok", summarizer).result))
           ELSE [NoRun EXCEPT !.stage = "rendered", !.request.form = event,
                              !.response = EmptyPage]
    /\ UNCHANGED <<now, quotas, api_keys, last_key_rotation, ret, granted, served, evicted,
                   tasks, fetches, dedup, unitVars>>

\* one topic of _get_trending_summaries
_get_trending_summaries(topic, fetched, summarizer) ==
    /\ run.stage = "idle"
    /\ run' = Consumed("recorded", [form |-> "None", json |-> "None", args |-> topic],
                       fetched, summarizer,
                       TopicSummary(Processed(fetched, "ok", "ok", summarizer).result))
    /\ UNCHANGED <<now, quotas, api_keys, last_key_rotation, ret, granted, served, evicted,
                   tasks, fetches, dedup, unitVars>>

\* What a source returns to these callers: nothing, a relevant article, or an
\* article without title followed by one without content
ConsumerResults ==
    {<< >>,
     <<Article("t1", "c1", 30, 90, -80)>>,
     <<Article("", "c3", 40, 50, 50), Article("t2", "", 0, 10, 10)>>}

Index ==
    /\ run.stage = "idle"
    /\ \/ \E fetched \in [1..Len(Sources) -> ConsumerResults], summarizer \in {"ok", "error"} :
              index("POST", "event", fetched, summarizer)
       \/ \E method \in {"GET", "POST"}, event \in {"None", "", "event"} :
              index(method, event, AllSources(<<Article("t1", "c1", 30, 90, -80)>>), "ok")

GetTrendingSummaries ==
    /\ run.stage = "idle"
    /\ \E fetched \in [1..Len(Sources) -> ConsumerResults], summarizer \in {"ok", "error"} :
          _get_trending_summaries("topic", fetched, summarizer)

NextConsumers == Index \/ GetTrendingSummaries

SpecConsumers == Init /\ [][NextConsumers]_vars

\* A fetch function: [] when its source has no credential or its USE flag is
\* off, otherwise what the provider gave ([] on an error or timeout)
fetch(enabled, provided) == IF enabled THEN provided ELSE << >>

\* POST /data with an event, in front of fetchers that are enabled or not
get_configured_news_data(enabled, provided) ==
    LET fetched == [i \in 1..Len(Sources) |-> fetch(enabled[i], provided[i])]
    IN  /\ run.stage = "idle"
        /\ run' = [enabled |-> enabled]
                      @@ Consumed("answered", FormRequest, fetched, "ok",
                                  Responded(Processed(fetched, "ok", "ok", "ok").result))
        /\ UNCHANGED <<now, quotas, api_keys, last_key_rotation, ret, granted, served,
                       evicted, tasks, fetches, dedup, unitVars>>

\* What a provider gives an enabled fetcher
Provided == {<< >>, <<Article("t1", "c1", 30, 90, -80)>>}

GetConfiguredNewsData ==
    /\ run.stage = "idle"
    /\ \E enabled \in [1..Len(Sources) -> BOOLEAN], provided \in [1..Len(Sources) -> Provided] :
          get_configured_news_data(enabled, provided)

NextConfigured == GetConfiguredNewsData

SpecConfigured == Init /\ [][NextConfigured]_vars

\* _fetch_and_process_data with its thread pool: the seven fetch functions
\* are submitted in the order of Sources, their futures complete in any
\* order, and "results = [future.result() for future in futures]" inside the
\* with block joins them all before anything else runs.  provided[i] is what
\* source i returns; order is the order of completion, kept when observed.
submit(provided, observed) ==
    /\ run.stage = "idle"
    /\ run' = [provided |-> provided,
               done |-> [i \in 1..Len(Sources) |-> FALSE],
               observed |-> observed,
               order |-> << >>]
                  @@ [NoRun EXCEPT !.stage = "fetching", !.invoked = TRUE,
                                   !.request = FormRequest]
    /\ UNCHANGED <<now, quotas, api_keys, last_key_rotation, ret, granted, served, evicted,
                   tasks, fetches, dedup, unitVars>>

future_done(i) ==
    /\ run.stage = "fetching"
    /\ ~run.done[i]
    /\ run' = [run EXCEPT !.done[i] = TRUE,
                          !.order = IF run.observed THEN Append(@, i) ELSE @]
    /\ UNCHANGED <<now, quotas, api_keys, last_key_rotation, ret, granted, served, evicted,
                   tasks, fetches, dedup, unitVars>>

\* future.result() per future, in the order of submission
ResultsAsCompleted(r) ==
    [k \in 1..Len(Sources) |-> IF r.observed THEN r.provided[r.order[k]] ELSE r.provided[k]]

Results(r) == [i \in 1..Len(Sources) |-> r.provided[i]]

\* the join and everything after it
_fetch_and_process_data ==
    /\ run.stage = "fetching"
    /\ \A i \in 1..Len(Sources) : run.done[i]
    /\ run' = [run EXCEPT !.stage = "processed",
                          !.fetched = Results(run),
                          !.processed = Processed(Results(run), "ok", "ok", "ok"),
                          !.response = Responded(Processed(Results(run), "ok", "ok", "ok").result)]
    /\ UNCHANGED <<now, quotas, api_keys, last_key_rotation, ret, granted, served, evicted,
                   tasks, fetches, dedup, unitVars>>

\* What the seven sources return: each its own article, of equal or of rising
\* similarity to the query, or the first two nothing and the others theirs
OwnTitles == <<"t1", "t2", "t3", "t4", "t5", "t6", "t7">>

ProvidedLists ==
    {[i \in 1..Len(Sources) |-> <<Article(OwnTitles[i], "c1", 30, 90, -80)>>],
     [i \in 1..Len(Sources) |-> <<Article(OwnTitles[i], "c1", 30 + i, 90, -80)>>],
     [i \in 1..Len(Sources) |->
         IF i <= 2 THEN << >> ELSE <<Article(OwnTitles[i], "c1", 30, 90, -80)>>]}

SubmitObserved ==
    /\ run.stage = "idle"
    /\ \E provided \in ProvidedLists : submit(provided, TRUE)

FutureDone == \E i \in 1..Len(Sources) : future_done(i)

NextJoin ==
    \/ SubmitObserved
    \/ FutureDone
    \/ _fetch_and_process_data

SpecJoin == Init /\ [][NextJoin]_vars

\* asyncio.sleep returns: the clock reaches the time a sleeping coroutine
\* wakes at
SleepEnds ==
    /\ \E t \in TaskIds :
          \/ tasks[t].pc = "sleeping" /\ now < tasks[t].wake /\ now' = tasks[t].wake
          \/ fetches[t].pc = "backoff" /\ now < fetches[t].wake /\ now' = fetches[t].wake
    /\ UNCHANGED <<quotas, api_keys, last_key_rotation, ret, granted, served, evicted, tasks,
                   fetches, pipelineVars>>

\* One fetch with retries, or one run of the thread pool, to its end
FetchToEnd == run.stage = "idle" /\ FetchAlone

\* No source returns anything, or the first or the last returns an article
FewProvided ==
    {AllSources(<< >>)}
        \cup {[i \in 1..Len(Sources) |->
                  IF i = j THEN <<Article("t1", "c1", 30, 90, -80)>> ELSE << >>] :
               j \in {1, Len(Sources)}}

Submit ==
    /\ run.stage = "idle"
    /\ \A t \in TaskIds : fetches[t].pc = "none"
    /\ \E provided \in FewProvided : submit(provided, FALSE)

NextTerminates ==
    \/ FetchToEnd
    \/ CheckedMeanwhile
    \/ NextAttempt
    \/ AfterSleep
    \/ Response
    \/ RequestError
    \/ SleepEnds
    \/ Submit
    \/ FutureDone
    \/ _fetch_and_process_data

\* Every HTTP attempt completes or fails, every sleep ends, a coroutine that
\* can run does and every fetch function returns: one of these steps is
\* taken when one stays possible
Progress ==
    \/ Response
    \/ RequestError
    \/ SleepEnds
    \/ AfterSleep
    \/ NextAttempt
    \/ FutureDone

\* The request thread goes on after the join: weak fairness of
\* _fetch_and_process_data, which is enabled exactly when every future is done
AllFuturesDone == run.stage = "fetching" /\ \A i \in 1..Len(Sources) : run.done[i]

JoinFair == []<>(~AllFuturesDone) \/ []<><<_fetch_and_process_data>>_vars

SpecTerminates == Init /\ [][NextTerminates]_vars /\ WF_vars(Progress) /\ JoinFair

\* remove_duplicates on its own, applied to a list and to its own result
PoolArticles ==
    {Standardized(a, source) :
        a \in UNION {Range(r) : r \in SourceResults}, source \in {"NewsAPI", "GNews"}}

ArticleLists == UNION {[1..n -> PoolArticles] : n \in 0..MaxArticles}

InitDedup ==
    /\ Constructed
    /\ ranked = NoRanked
    /\ standardized = NoStandardized
    /\ \E articles \in ArticleLists :
          dedup = [calls |-> 0, articles |-> articles, unique |-> articles]

RemoveDuplicates ==
    /\ dedup.calls < MaxCalls
    /\ dedup' = [dedup EXCEPT !.calls = @ + 1, !.unique = remove_duplicates(@)]
    /\ UNCHANGED <<now, quotas, api_keys, last_key_rotation, ret, granted, served, evicted,
                   tasks, fetches, run, unitVars>>

NextDedup == RemoveDuplicates

SpecDedup == InitDedup /\ [][NextDedup]_vars

\* ModelManager.get_instance, called from the worker threads of
\* _get_trending_summaries (routes.py:321-322, through routes.py:125) without
\* a lock: a thread may be preempted between any two of its steps.
ThreadAfter(t, pc, got) ==
    [models.threads EXCEPT ![t] = [pc |-> pc,
                                   uses |-> IF pc = "idle" THEN @.uses + 1 ELSE @.uses,
                                   got |-> got,
                                   analyzer |-> IF got = 0 THEN 0 ELSE models.analyzer[got]]]

\* if cls._instance is None
IsNone(t) ==
    /\ models.threads[t].pc = "idle"
    /\ models.threads[t].uses < MaxUses
    /\ models' = [models EXCEPT
           !.threads = ThreadAfter(t, IF models.instance = 0 THEN "construct" ELSE "return", 0)]

\* cls._instance = cls()
Construct(t) ==
    /\ models.threads[t].pc = "construct"
    /\ models' = [models EXCEPT !.constructed = @ + 1,
                                !.instance = models.constructed + 1,
                                !.threads = ThreadAfter(t, "load", 0)]

\* cls._instance._sentiment_analyzer = pipeline("sentiment-analysis", ...)
Load(t) ==
    /\ models.threads[t].pc = "load"
    /\ models' = [models EXCEPT !.loaded = @ + 1,
                                !.analyzer[models.instance] = models.loaded + 1,
                                !.threads = ThreadAfter(t, "return", 0)]

\* return cls._instance
ReturnInstance(t) ==
    /\ models.threads[t].pc = "return"
    /\ models' = [models EXCEPT !.threads = ThreadAfter(t, "idle", models.instance)]

get_instance(t) ==
    /\ IsNone(t) \/ Construct(t) \/ Load(t) \/ ReturnInstance(t)
    /\ UNCHANGED <<managerVars, run, dedup, ranked, standardized, sessions, singleton>>

GetInstance == \E t \in ThreadIds : get_instance(t)

NextModels == GetInstance

SpecModels == Init /\ [][NextModels]_vars

\* BaseFetcher._get_session and close, called from the coroutines that share
\* the fetcher.  _get_session has no await; close awaits the session's close
\* before it resets _session, and is awaited once, by the coroutine that owns
\* the fetcher (app/routes.py:48), so one close is in progress at a time.
SessionAlwaysCreated(s) ==
    [s EXCEPT !.session = s.created + 1, !.created = @ + 1, !.open = @ \cup {s.created + 1}]

SessionAfterGet(s) ==
    IF s.session = 0
    THEN [s EXCEPT !.session = s.created + 1, !.created = @ + 1,
                   !.open = @ \cup {s.created + 1}]
    ELSE s

SessionReturned(s, op, value) ==
    [s EXCEPT !.op = op, !.returned = value, !.n = 1 - @]

_get_session(f) ==
    /\ sessions[f].session = 0 => sessions[f].created < MaxSessions
    /\ sessions' = [sessions EXCEPT ![f] =
           SessionReturned(SessionAfterGet(@), "_get_session", SessionAfterGet(@).session)]
    /\ UNCHANGED <<managerVars, run, dedup, ranked, standardized, models, singleton>>

\* close up to its await: nothing to do without a session; otherwise the
\* session is closed and the coroutine is suspended
close(f) ==
    /\ sessions[f].pc = "idle"
    /\ sessions' = [sessions EXCEPT ![f] =
           IF @.session = 0
           THEN SessionReturned(@, "close", 0)
           ELSE [@ EXCEPT !.open = @ \ {sessions[f].session}, !.pc = "closing"]]
    /\ UNCHANGED <<managerVars, run, dedup, ranked, standardized, models, singleton>>

\* close after its await: self._session = None
closed(f) ==
    /\ sessions[f].pc = "closing"
    /\ sessions' = [sessions EXCEPT ![f] =
           SessionReturned([@ EXCEPT !.session = 0, !.pc = "idle"], "close", 0)]
    /\ UNCHANGED <<managerVars, run, dedup, ranked, standardized, models, singleton>>

GetSession == \E f \in FetcherIds : _get_session(f)

Close == \E f \in FetcherIds : close(f)

Closed == \E f \in FetcherIds : closed(f)

NextSessions == GetSession \/ Close \/ Closed

SpecSessions == Init /\ [][NextSessions]_vars

\* process_articles on its own: the items of one provider, with content
\* that is text, empty or blank, and with or without the second field
RawArticle(title, content, fallback) ==
    [title |-> title, content |-> content, fallback |-> fallback,
     similarity |-> 0, title_score |-> 0, content_score |-> 0]

RawPool ==
    {Article("t1", "c1", 0, 0, 0),
     Article("t2", "", 0, 0, 0),
     RawArticle("t3", " ", "w3"),
     RawArticle("", "", "w4"),
     RawArticle("t5", "", " "),
     RawArticle("", "c6", "")}

RawLists == UNION {[1..n -> RawPool] : n \in 0..MaxArticles}

InitStandardize ==
    /\ Constructed
    /\ dedup = NoDedup
    /\ ranked = NoRanked
    /\ \E articles \in RawLists, source \in Range(Sources) :
          standardized = [NoStandardized EXCEPT !.articles = articles, !.source = source]

ProcessArticles ==
    /\ standardized.stage = "idle"
    /\ standardized' = [standardized EXCEPT
           !.stage = "returned",
           !.result = process_articles(standardized.articles, standardized.source)]
    /\ UNCHANGED <<managerVars, run, dedup, ranked, models, sessions, singleton>>

NextStandardize == ProcessArticles

SpecStandardize == InitStandardize /\ [][NextStandardize]_vars

\* filter_relevant_articles on its own.  An article that has neither content
\* nor title has no word in common with the query: its similarity is 0.
RankedArticle(title, content, similarity, share_count) ==
    [title |-> title, content |-> content, similarity |-> similarity,
     share_count |-> share_count]

RankPool ==
    {RankedArticle("t1", "c1", 30, 0),
     RankedArticle("t2", "c2", 30, 0),
     RankedArticle("t3", "c3", 30, MaxShares),
     RankedArticle("t4", "c4", 3, MaxShares),
     RankedArticle("t5", "", 0, 1),
     RankedArticle("", "", 0, 1),
     [title |-> "t7", content |-> "c7", similarity |-> 60]}

RankLists == UNION {[1..n -> RankPool] : n \in 0..MaxArticles}

TopNs == 0..MaxTopN

Thresholds == {0, RELEVANCE_THRESHOLD, 4 * RELEVANCE_THRESHOLD}

InitRank ==
    /\ Constructed
    /\ dedup = NoDedup
    /\ standardized = NoStandardized
    /\ \E articles \in RankLists, top_n \in TopNs, relevance_threshold \in Thresholds :
          ranked = [NoRanked EXCEPT !.articles = articles, !.top_n = top_n,
                                    !.relevance_threshold = relevance_threshold]

FilterRelevantArticles ==
    /\ ranked.stage = "idle"
    /\ ranked' = [ranked EXCEPT
           !.stage = "returned",
           !.article_scores =
               IF \A i \in 1..Len(ranked.articles) : Text(ranked.articles[i]) = ""
               THEN << >>
               ELSE ArticleScores(ranked.articles, Threshold(ranked.relevance_threshold)),
           !.relevant_articles =
               filter_relevant_articles(ranked.articles, ranked.top_n,
                                        ranked.relevance_threshold)]
    /\ UNCHANGED <<managerVars, run, dedup, standardized, models, sessions, singleton>>

NextRank == FilterRelevantArticles

SpecRank == InitRank /\ [][NextRank]_vars

-----------------------------------------------------------------------------
(* Properties of the quota windows *)

QuotaNames == DOMAIN quotas

IsCall(op, api_name) ==
    ret'.n # ret.n /\ ret'.op = op /\ ret'.api_name = api_name

\* A counter as it stands once a reset that is due at time t is applied
DueSecond(q, t) == IF t - q.last_second_reset >= SECOND_WINDOW THEN 0 ELSE q.current_second
DueMinute(q, t) == IF t - q.last_minute_reset >= MINUTE_WINDOW THEN 0 ELSE q.current_minute
DueDay(q, t) == IF t - q.last_day_reset >= DAY_WINDOW THEN 0 ELSE q.current_day

\* C1: once a window's limit L of calls has been admitted since the window's
\* last reset, can_make_request returns False for as long as less than the
\* window length has passed since that reset.
C1_ExhaustedWindowDenies ==
    \A a \in QuotaNames :
        LET q == quotas[a]
            g == granted[a]
        IN  /\ (g.second >= q.requests_per_second
                    /\ now - q.last_second_reset < SECOND_WINDOW) => ~Admits(q, now)
            /\ (g.minute >= q.requests_per_minute
                    /\ now - q.last_minute_reset < MINUTE_WINDOW) => ~Admits(q, now)
            /\ (g.day >= q.requests_per_day
                    /\ now - q.last_day_reset < DAY_WINDOW) => ~Admits(q, now)

\* A call was just denied by the day window alone: the day limit has been
\* admitted since the day's reset while the second and minute windows have room.
C1_Witness ==
    /\ ret.op = "can_make_request" /\ ret.value = "False"
    /\ ret.api_name \in QuotaNames
    /\ LET q == quotas[ret.api_name]
       IN  /\ granted[ret.api_name].day = q.requests_per_day
           /\ q.requests_per_day = API_QUOTAS[ret.api_name].requests_per_day
           /\ q.current_second < q.requests_per_second
           /\ q.current_minute < q.requests_per_minute
           /\ now > q.last_day_reset

\* C3: each counter is at most its window's current limit in every reachable
\* state (the claim as stated).
C3_CountersWithinLimits ==
    \A a \in QuotaNames :
        /\ quotas[a].current_second <= quotas[a].requests_per_second
        /\ quotas[a].current_minute <= quotas[a].requests_per_minute
        /\ quotas[a].current_day <= quotas[a].requests_per_day

\* C4: a can_make_request call returns True only if every counter, after the
\* resets that are due, is below its limit, and then adds exactly 1 to all
\* three in that one step; a call that returns False adds nothing.
C4_AdmitCountsAllDenyCountsNone ==
    [][\A a \in QuotaNames :
          IsCall("can_make_request", a) =>
              LET q == quotas[a]
                  q2 == quotas'[a]
                  inc == IF ret'.value = "True" THEN 1 ELSE 0
              IN  /\ ret'.value \in {"True", "False"}
                  /\ ret'.value = "True" =>
                        /\ DueSecond(q, now) < q.requests_per_second
                        /\ DueMinute(q, now) < q.requests_per_minute
                        /\ DueDay(q, now) < q.requests_per_day
                  /\ q2.current_second = DueSecond(q, now) + inc
                  /\ q2.current_minute = DueMinute(q, now) + inc
                  /\ q2.current_day = DueDay(q, now) + inc]_vars

\* An admitted call that also reset the minute window, and a denied call
C4_Witness ==
    /\ ret.op = "can_make_request" /\ ret.value = "True"
    /\ ret.api_name \in QuotaNames
    /\ quotas[ret.api_name].last_minute_reset = now
    /\ now > 0
    /\ quotas[ret.api_name].current_minute = 1
    /\ quotas[ret.api_name].current_day > 1

-----------------------------------------------------------------------------
(* Properties of the keys *)

DistinctValues(keys) == Cardinality(KeyValuesOf(keys)) = Len(keys)

KeysAfter(api_name) == IF api_name \in DOMAIN api_keys' THEN api_keys'[api_name] ELSE << >>

\* C7: get_api_key rotates a source's keys at most once per 3600 s and
\* round-robin: a call less than 3600 s after the last rotation returns the
\* key returned before; a call 3600 s or more after it moves the head key to
\* the back and returns the next one, which is another key; n successive
\* rotations over n keys serve each key once.
C7_HourlyRoundRobin ==
    [][\A a \in ApiNames :
          IsCall("get_api_key", a) =>
              LET keys == KeysOf(a)
                  keys2 == KeysAfter(a)
                  stamped == a \in DOMAIN last_key_rotation
                  rotated == \/ keys2 # keys
                             \/ a \in DOMAIN last_key_rotation' /\ ~stamped
                             \/ stamped /\ last_key_rotation'[a] # last_key_rotation[a]
                  round == served'[a].rotations
              IN  /\ rotated =>
                        ~stamped \/ now - last_key_rotation[a] >= KEY_ROTATION_INTERVAL
                  /\ (stamped /\ now - last_key_rotation[a] < KEY_ROTATION_INTERVAL
                         /\ served[a].id # "None") =>
                        /\ ret'.value = served[a].value
                        /\ Head(keys2).id = served[a].id
                  /\ (stamped /\ now - last_key_rotation[a] >= KEY_ROTATION_INTERVAL
                         /\ RequiresKey(a) /\ Len(keys) >= 2) =>
                        /\ keys2 = Tail(keys) \o <<Head(keys)>>
                        /\ ret'.value = keys[2].value
                        /\ served[a].id # "None" =>
                              /\ Head(keys2).id # served[a].id
                              /\ DistinctValues(keys) => ret'.value # served[a].value
                  /\ \A i, j \in 1..Len(round) : i # j => round[i] # round[j]
                  /\ Range(round) \subseteq KeyIdsOf(keys2)
                  /\ (round # << >> /\ Len(round) = Len(keys2)) =>
                        Range(round) = KeyIdsOf(keys2)]_vars

\* Two keys with different values, each served by one of two rotations an
\* hour apart
C7_Witness ==
    /\ ret.op = "get_api_key" /\ ret.api_name = "newsapi"
    /\ Len(KeysOf("newsapi")) = 2
    /\ DistinctValues(KeysOf("newsapi"))
    /\ Len(served["newsapi"].rotations) = 2
    /\ last_key_rotation["newsapi"] = now
    /\ now >= KEY_ROTATION_INTERVAL

\* C8 as stated: an evicted key is out of the key set and get_api_key does
\* not return its value until it is registered again; with every key evicted
\* get_api_key returns None.
C8_EvictedValueNeverReturned ==
    \A a \in ApiNames :
        /\ evicted[a] # NoEntry =>
              /\ evicted[a].id \notin KeyIdsOf(KeysOf(a))
              /\ KeyReturned(a, now) # evicted[a].value
        /\ (RequiresKey(a) /\ KeysOf(a) = << >>) => KeyReturned(a, now) = "None"

\* C8 as amended: get_api_key may return the evicted key's value only while
\* another key id of the source holds that same value.
C8_EvictedKeyNotServed ==
    \A a \in ApiNames :
        /\ evicted[a] # NoEntry =>
              /\ evicted[a].id \notin KeyIdsOf(KeysOf(a))
              /\ KeyReturned(a, now) = evicted[a].value =>
                    \E k \in Range(KeysOf(a)) :
                        k.id # evicted[a].id /\ k.value = evicted[a].value
        /\ (RequiresKey(a) /\ KeysOf(a) = << >>) => KeyReturned(a, now) = "None"

\* The last key of a source that requires one was evicted after it had been
\* served, and get_api_key has returned None since
C8_Witness ==
    /\ ret.op = "get_api_key" /\ ret.api_name = "newsapi" /\ ret.value = "None"
    /\ "newsapi" \in DOMAIN api_keys /\ api_keys["newsapi"] = << >>
    /\ evicted["newsapi"] # NoEntry
    /\ served["newsapi"].id = "None"
    /\ "newsapi" \in DOMAIN last_key_rotation

-----------------------------------------------------------------------------
(* Properties of the fetch coroutines *)

\* Task t passes an admission check in this step
Checks(t) == tasks[t].pc \in {"idle", "sleeping"} /\ tasks'[t].pc # tasks[t].pc

\* Task t handles a response with this status in this step
Answered(t, status) ==
    tasks[t].pc = "requesting" /\ tasks'[t].pc = "done" /\ tasks'[t].status = status

\* Tasks other than t admitted for the source in the second window that is
\* still running
AdmittedThisSecond(t, api_name) ==
    {u \in TaskIds \ {t} :
        /\ tasks[u].api_name = api_name
        /\ tasks[u].admitted = "True"
        /\ tasks[u].asked >= quotas[api_name].last_second_reset
        /\ now - quotas[api_name].last_second_reset < SECOND_WINDOW}

\* C2: on a source whose per-second limit is 1, of the admission checks that
\* concurrent tasks make within one second window the first is admitted (the
\* other windows having room) and every other is denied, and the second
\* counter stands at 1 after each of them.
C2_ConcurrentChecksSerialized ==
    [][\A t \in TaskIds :
          (Checks(t) /\ tasks'[t].api_name \in QuotaNames) =>
              LET a == tasks'[t].api_name
                  q == quotas[a]
                  rivals == AdmittedThisSecond(t, a)
              IN  q.requests_per_second = 1 =>
                      /\ rivals # {} =>
                            /\ tasks'[t].admitted = "False"
                            /\ quotas'[a].current_second = 1
                      /\ (/\ rivals = {}
                          /\ DueSecond(q, now) = 0
                          /\ DueMinute(q, now) < q.requests_per_minute
                          /\ DueDay(q, now) < q.requests_per_day) =>
                            tasks'[t].admitted = "True"
                      /\ tasks'[t].admitted = "True" =>
                            quotas'[a].current_second = 1]_vars

\* Two tasks checked the same source at the same second: one was admitted
\* and has its request in flight, the other was denied by the second window
\* alone and sleeps
C2_Witness ==
    \E t, u \in TaskIds :
        /\ tasks[t].api_name = "newsapi" /\ tasks[u].api_name = "newsapi"
        /\ tasks[t].asked = now /\ tasks[u].asked = now
        /\ tasks[t].admitted = "True" /\ tasks[t].pc = "requesting"
        /\ tasks[u].admitted = "False" /\ tasks[u].pc = "sleeping"
        /\ quotas["newsapi"].requests_per_second = 1
        /\ quotas["newsapi"].current_second = 1
        /\ quotas["newsapi"].current_minute < quotas["newsapi"].requests_per_minute
        /\ quotas["newsapi"].current_day < quotas["newsapi"].requests_per_day

\* C6: a 429 response sets the source's minute limit to max(1, floor(0.75 x
\* old)), once, and the request ends with the rate-limit error and no body;
\* nothing else a request does changes the limit; a later check admits only
\* while the minute counter is below the limit as it then stands.
C6_TooManyRequestsCutsMinuteLimit ==
    [][/\ \A t \in TaskIds :
             /\ Answered(t, TOO_MANY_REQUESTS) =>
                   /\ tasks'[t].result = "Rate limit exceeded"
                   /\ tasks[t].api_name \in QuotaNames =>
                         quotas'[tasks[t].api_name].requests_per_minute =
                             Max(MINUTE_FLOOR,
                                 (3 * quotas[tasks[t].api_name].requests_per_minute) \div 4)
             /\ (Checks(t) /\ tasks'[t].admitted = "True") =>
                   /\ tasks'[t].api_name \in QuotaNames
                   /\ DueMinute(quotas[tasks'[t].api_name], now)
                          < quotas[tasks'[t].api_name].requests_per_minute
       /\ \A a \in QuotaNames :
             quotas'[a].requests_per_minute # quotas[a].requests_per_minute =>
                 \E t \in TaskIds : Answered(t, TOO_MANY_REQUESTS) /\ tasks[t].api_name = a]_vars

\* One task's request was answered 429; another task was then denied by the
\* minute window alone, at a count below the configured limit
C6_Witness ==
    \E t, u \in TaskIds :
        /\ tasks[t].api_name = "newsapi" /\ tasks[u].api_name = "newsapi"
        /\ tasks[t].status = TOO_MANY_REQUESTS /\ tasks[t].result = "Rate limit exceeded"
        /\ tasks[u].admitted = "False" /\ tasks[u].asked = now
        /\ LET q == quotas["newsapi"]
           IN  /\ q.requests_per_minute < API_QUOTAS["newsapi"].requests_per_minute
               /\ q.current_minute >= q.requests_per_minute
               /\ q.current_minute < API_QUOTAS["newsapi"].requests_per_minute
               /\ q.current_second < q.requests_per_second
               /\ q.current_day < q.requests_per_day

\* C9 as stated: once a request has been answered 403 it has ended with the
\* authentication error and the key it was sent with is out of the source's
\* key set (no key is registered after the first request).
C9_RejectedCredentialEvicted ==
    \A t \in TaskIds :
        (tasks[t].pc = "done" /\ tasks[t].status = FORBIDDEN) =>
            /\ tasks[t].result = "Authentication failed"
            /\ tasks[t].key_id # "None" =>
                  tasks[t].key_id \notin KeyIdsOf(KeysOf(tasks[t].api_name))

-----------------------------------------------------------------------------
(* Properties of the manager called with unknown names *)

QuotaAndKeyStateUnchanged == UNCHANGED <<quotas, api_keys, last_key_rotation>>

\* C10: no call raises, whatever the source and the key id; can_make_request
\* returns False for a source without quota and for an exhausted window;
\* handle_rate_limit_error on a source without quota and handle_auth_error
\* on a source without keys or with a key id the source does not hold leave
\* the quotas and the keys as they were.
C10_NeverRaises ==
    [][ret'.n # ret.n =>
          /\ ret'.value \notin {"KeyError", "IndexError"}
          /\ \A a \in ApiNames :
                /\ IsCall("can_make_request", a) =>
                      /\ ret'.value \in {"True", "False"}
                      /\ a \notin QuotaNames =>
                            ret'.value = "False" /\ QuotaAndKeyStateUnchanged
                      /\ (a \in QuotaNames
                            /\ \/ DueSecond(quotas[a], now) >= quotas[a].requests_per_second
                               \/ DueMinute(quotas[a], now) >= quotas[a].requests_per_minute
                               \/ DueDay(quotas[a], now) >= quotas[a].requests_per_day) =>
                            ret'.value = "False"
                /\ (IsCall("handle_rate_limit_error", a) /\ a \notin QuotaNames) =>
                      QuotaAndKeyStateUnchanged
                /\ (IsCall("handle_auth_error", a)
                      /\ ret'.key_id \notin KeyIdsOf(KeysOf(a))) =>
                      QuotaAndKeyStateUnchanged]_vars

\* handle_auth_error has returned from a call with a key id that the source,
\* which holds a key, does not hold
C10_Witness ==
    /\ ret.op = "handle_auth_error" /\ ret.value = "None"
    /\ ret.key_id = "current"
    /\ KeyIdsOf(KeysOf(ret.api_name)) = {"test_key_1"}
    /\ \E a \in QuotaNames : quotas[a].current_second >= quotas[a].requests_per_second

-----------------------------------------------------------------------------
(* Properties of fetch_with_retry *)

\* C11 as stated: over one whole fetch_with_retry call admission is checked
\* at most twice and waited for at most once.
C11_TwoChecksOneWait ==
    \A t \in TaskIds : fetches[t].checks <= 2 /\ fetches[t].waits <= 1

\* C12: fetch_with_retry(url, n) makes at most n attempts; the first attempt
\* that returns a body ends the call, which returns that body; an attempt
\* that fails, whatever the failure, is followed by another unless it is the
\* n-th, after which the call returns None; nothing is raised and a call
\* that has returned takes no further step.
C12_RetriesThenNone ==
    [][\A t \in TaskIds :
          LET f == fetches[t]
              f2 == fetches'[t]
              task2 == tasks'[t]
          IN  f2.max_retries > 0 =>
                  /\ f2.attempt < f2.max_retries
                  /\ f2.pc \in {"running", "backoff", "returned"}
                  /\ f2.returned \in {"None", "body"}
                  /\ (task2.pc = "done" /\ task2.result = "body") =>
                        f2.pc = "returned" /\ f2.returned = "body"
                  /\ (task2.pc = "done" /\ task2.result # "body") =>
                        IF f2.attempt = f2.max_retries - 1
                        THEN f2.pc = "returned" /\ f2.returned = "None"
                        ELSE f2.pc = "backoff"
                  /\ f2.pc = "returned" => task2.pc = "done"
                  /\ f.pc = "returned" => f2 = f /\ task2 = tasks[t]]_vars

\* One call returned None after two attempts, the second denied admission
\* twice; another returned the body of its second attempt
C12_Witness ==
    \E t, u \in TaskIds :
        /\ fetches[t].pc = "returned" /\ fetches[t].returned = "None"
        /\ fetches[t].max_retries = 2 /\ fetches[t].attempt = 1
        /\ tasks[t].result = "Rate limit exceeded even after waiting"
        /\ fetches[u].pc = "returned" /\ fetches[u].returned = "body"
        /\ fetches[u].attempt = 1

-----------------------------------------------------------------------------
(* Properties of the news pipeline *)

RunReturned == run.stage = "returned" /\ run.invoked

Succeeded == {Sources[i] : i \in {j \in 1..Len(Sources) : run.fetched[j] # << >>}}

Failed == {Sources[i] : i \in {j \in 1..Len(Sources) : run.fetched[j] = << >>}}

\* Neither the classifier nor the vectorizer raised
NothingRaised ==
    /\ ~ClassifierRaises(run.fetched, run.classifier)
    /\ ~VectorizerRaises(remove_duplicates(CappedArticles(run.fetched)), run.vectorizer)

PipelineStages == {"remove_duplicates", "filter_relevant_articles", "summarize_articles"}

PartialWarning == "Showing results from available sources"

\* C14 as stated: the result carries the partial-failure warning if and only
\* if some source failed and some other succeeded, and neither a warning nor
\* a failed source when every source succeeded.
C14_DegradedIffPartial ==
    RunReturned =>
        /\ run.processed.result.error = PartialWarning <=> (Failed # {} /\ Succeeded # {})
        /\ Failed = {} =>
              /\ run.processed.result.error # PartialWarning
              /\ run.processed.failed_sources = << >>

\* C14 as amended: of the results that carry articles, those with the
\* warning are those of a call in which a source failed; a result without
\* articles carries no warning, whatever the sources did.
C14_DegradedIffPartialWithArticles ==
    RunReturned =>
        /\ run.processed.result.error = PartialWarning
              <=> (Failed # {} /\ run.processed.result.articles # << >>)
        /\ run.processed.result.error = PartialWarning => Succeeded # {}
        /\ Failed = {} =>
              /\ run.processed.result.error # PartialWarning
              /\ run.processed.failed_sources = << >>

\* A source failed, another returned an article, and the result carries the
\* warning with the article although the summarizer failed
C14_Witness ==
    /\ RunReturned
    /\ Failed # {} /\ Cardinality(Succeeded) >= 2
    /\ run.processed.result.error = PartialWarning
    /\ run.processed.result.articles # << >>
    /\ run.processed.result.summary = "Error generating summary"
    /\ run.response.warning = PartialWarning

\* C15 as stated: /data answers the no-articles outcome with 404 and the
\* internal-error outcome with 500.
C15_NotFoundVersusInternalError ==
    RunReturned =>
        /\ run.processed.result.error = "No articles found" =>
              run.response.status = HTTP_NOT_FOUND
        /\ run.processed.result.error = "An unexpected error occurred" =>
              run.response.status = HTTP_INTERNAL_ERROR

\* C16 as stated: when the ranking yields an article the result carries the
\* ranked articles and a summary, real or error-marked, on either path.
C16_ArticlesSurviveSummarizer ==
    (RunReturned /\ run.processed.relevant # << >>) =>
        /\ run.processed.result.articles = run.processed.relevant
        /\ run.processed.result.summary \in {"summary", "Error generating summary"}
        /\ run.response.status = HTTP_OK

\* C17 as stated: when the classifier raises on a batch, the call goes on to
\* remove duplicates and rank, is no error outcome on that account, and
\* every article it returns has sentiment score 0.
C17_ClassifierFailureScoresZero ==
    (RunReturned /\ ClassifierRaises(run.fetched, run.classifier)) =>
        /\ run.processed.result.error # "An unexpected error occurred"
        /\ {"remove_duplicates", "filter_relevant_articles"} \subseteq run.processed.reached
        /\ \A a \in Range(run.processed.result.articles) : a.sentiment_score = 0

\* C18: when sources returned articles, none of them with a similarity that
\* reaches the threshold, and nothing raised, the call returns the
\* no-relevant-articles outcome: no article, no summary, the summarizer not
\* called, with a message of its own; on either path.
C18_NoRelevantArticles ==
    (/\ RunReturned
     /\ Succeeded # {}
     /\ NothingRaised
     /\ \A i \in 1..Len(Sources) : \A a \in Range(run.fetched[i]) :
           a.similarity < RELEVANCE_THRESHOLD) =>
        /\ run.processed.result = ErrorTuple("No relevant articles found")
        /\ run.processed.result.error
               \notin {"No articles found", "An unexpected error occurred"}
        /\ "summarize_articles" \notin run.processed.reached
        /\ run.processed.relevant = << >>
        /\ run.response.articles = << >> /\ run.response.summary = "None"

\* Every source returned an article below the threshold (the summarizer
\* would have failed)
C18_Witness ==
    /\ RunReturned
    /\ Failed = {}
    /\ run.summarizer = "error"
    /\ \A i \in 1..Len(Sources) : \A a \in Range(run.fetched[i]) :
           a.similarity < RELEVANCE_THRESHOLD
    /\ run.processed.result.error = "No relevant articles found"
    /\ run.processed.reached = {"remove_duplicates", "filter_relevant_articles"}

\* The source names a message of _fetch_and_process_data carries: each
\* message is a fixed text around the event, none is built from failed_sources
NamedSources(message) == {}

\* C19 as stated: the warning of a partial result names the failed sources.
C19_WarningNamesFailedSources ==
    (RunReturned /\ run.response.warning # "None") =>
        NamedSources(run.response.warning) = Range(run.processed.failed_sources)

-----------------------------------------------------------------------------
(* Properties of remove_duplicates *)

\* C20: remove_duplicates applied to its own result returns that result, and
\* its result is never longer than its input.
C20_DedupIdempotent ==
    /\ Len(remove_duplicates(dedup.articles)) <= Len(dedup.articles)
    /\ dedup.calls >= 1 => dedup.unique = remove_duplicates(dedup.articles)
    /\ Len(dedup.unique) <= Len(dedup.articles)

\* A list of three with a repeated title and an empty title, after the
\* second application
C20_Witness ==
    /\ dedup.calls = 2
    /\ Len(dedup.articles) = 3
    /\ Len(dedup.unique) = 1
    /\ \E i \in 1..3 : dedup.articles[i].title = ""
    /\ \E i, j \in 1..3 : i # j /\ dedup.articles[i].title = dedup.articles[j].title
                             /\ dedup.articles[i].title # ""

\* The positions of a list that carry a title for the first time
FirstOfTitle(articles) ==
    {i \in 1..Len(articles) :
        \A j \in 1..(i - 1) : articles[j].title # articles[i].title}

\* unique is the list of the articles at the positions keep, in their order
IsSubsequenceAt(unique, articles, keep) ==
    /\ Len(unique) = Cardinality(keep)
    /\ \E at \in [1..Len(unique) -> keep] :
          /\ \A k \in 1..Len(unique) : unique[k] = articles[at[k]]
          /\ \A k, l \in 1..Len(unique) : k < l => at[k] < at[l]

-----------------------------------------------------------------------------
(* Properties of filter_relevant_articles *)

RankReturned == ranked.stage = "returned"

SomeText == \E i \in 1..Len(ranked.articles) : Text(ranked.articles[i]) # ""

\* The combined score of an article of the list given to the call
ScoreOf(article) ==
    CombinedScore(article.similarity,
                  NormalizedShareCount(ShareCount(article), MaxShareCount(ranked.articles)))

RankedByScore ==
    /\ \A a \in Range(ranked.relevant_articles) :
          a.similarity >= Threshold(ranked.relevance_threshold)
    /\ \A k, l \in 1..Len(ranked.relevant_articles) :
          k < l => AtLeast(ScoreOf(ranked.relevant_articles[k]),
                           ScoreOf(ranked.relevant_articles[l]))
    /\ Len(ranked.relevant_articles) <= TopN(ranked.top_n)

\* C22 as stated: every returned article is at or above the threshold, the
\* result is in non-increasing order of combined score and has at most top_n
\* elements.
C22_RankedByScore == RankReturned => RankedByScore

\* C22: when some article has content or a title, every returned article is
\* at or above the threshold whatever its share count, the result is in
\* non-increasing order of combined score and has at most top_n elements;
\* when none has, the result is the first top_n articles as they came.
C22_RankedByScoreWhenText ==
    RankReturned =>
        IF SomeText THEN RankedByScore
        ELSE ranked.relevant_articles = FirstN(ranked.articles, TopN(ranked.top_n))

\* The most shared article is below the threshold and is dropped; the last
\* of the others has the highest score and is the one returned
C22_Witness ==
    /\ RankReturned
    /\ ranked.top_n = 1
    /\ ranked.relevance_threshold = RELEVANCE_THRESHOLD
    /\ Len(ranked.articles) = 3
    /\ ranked.articles[2].similarity < RELEVANCE_THRESHOLD
    /\ ShareCount(ranked.articles[2]) = MaxShares
    /\ ShareCount(ranked.articles[1]) = 0
    /\ ranked.articles[1].similarity = ranked.articles[3].similarity
    /\ ranked.relevant_articles = <<ranked.articles[3]>>

\* The articles the call chooses from
Candidates ==
    {i \in 1..Len(ranked.articles) :
        SomeText => ranked.articles[i].similarity >= Threshold(ranked.relevance_threshold)}

\* C23: the returned articles can be traced to positions of the input so
\* that articles of equal combined score are in input order, and a candidate
\* left out by the truncation comes after every returned article of its score.
C23_StableOnTies ==
    RankReturned =>
        \E at \in [1..Len(ranked.relevant_articles) -> Candidates] :
            /\ \A k \in DOMAIN at : ranked.relevant_articles[k] = ranked.articles[at[k]]
            /\ \A k, l \in DOMAIN at : k # l => at[k] # at[l]
            /\ \A k, l \in DOMAIN at :
                  (k < l /\ ScoreOf(ranked.articles[at[k]]) = ScoreOf(ranked.articles[at[l]]))
                      => at[k] < at[l]
            /\ \A i \in Candidates \ {at[k] : k \in DOMAIN at} :
                  \A k \in DOMAIN at :
                      ScoreOf(ranked.articles[at[k]]) = ScoreOf(ranked.articles[i])
                          => at[k] < i

\* Two different articles of equal score come first and second, before a
\* third one, top_n is 1, and the first is the one returned
C23_Witness ==
    /\ RankReturned
    /\ ranked.top_n = 1
    /\ Len(ranked.articles) = 3
    /\ ranked.articles[1] # ranked.articles[2]
    /\ ScoreOf(ranked.articles[1]) = ScoreOf(ranked.articles[2])
    /\ ranked.articles[3] \notin {ranked.articles[1], ranked.articles[2]}
    /\ ranked.articles[1].similarity >= Threshold(ranked.relevance_threshold)
    /\ ranked.relevant_articles = <<ranked.articles[1]>>

\* C24 as stated: with threshold 0 passed and a deduplicated list, every
\* article that has content and a similarity above 0 is returned unless the
\* result is full.
C24_ThresholdZeroKeepsAll ==
    (/\ RankReturned
     /\ ranked.relevance_threshold = 0
     /\ remove_duplicates(ranked.articles) = ranked.articles) =>
        \A a \in Range(ranked.articles) :
            (a.content # "" /\ a.similarity > 0) =>
                \/ a \in Range(ranked.relevant_articles)
                \/ Len(ranked.relevant_articles) = TopN(ranked.top_n)

\* C27: when no article of the list has a share count above 0, every scored
\* article has normalized share count 0, computed without dividing by 0, and
\* combined score weight_relevance * similarity.
C27_NoSharesNoDivision ==
    (RankReturned /\ \A a \in Range(ranked.articles) : ShareCount(a) = 0) =>
        \A k \in 1..Len(ranked.article_scores) :
            LET entry == ranked.article_scores[k]
            IN  /\ entry.normalized_share_count.den # 0
                /\ entry.normalized_share_count.num = 0
                /\ entry.combined_score.den # 0
                /\ entry.combined_score.num * 1000
                       = WEIGHT_RELEVANCE * entry.article.similarity * entry.combined_score.den

\* Three articles without shares, one of them without the share_count key,
\* two of them scored
C27_Witness ==
    /\ RankReturned
    /\ Len(ranked.articles) = 3
    /\ \A a \in Range(ranked.articles) : ShareCount(a) = 0
    /\ \E a \in Range(ranked.articles) : "share_count" \notin DOMAIN a
    /\ \E a \in Range(ranked.articles) : "share_count" \in DOMAIN a
    /\ Len(ranked.article_scores) >= 2
    /\ \E k \in 1..Len(ranked.article_scores) :
          ranked.article_scores[k].combined_score.num > 0

-----------------------------------------------------------------------------
(* Properties of process_articles *)

\* The content of an item after the fallback of its provider
AfterFallback(article, source) ==
    IF article.content # "" THEN article.content
    ELSE IF "fallback" \in DOMAIN article /\ HasFallback(source) THEN article.fallback
    ELSE ""

\* C25 as stated: for every provider the result holds no article whose
\* content is empty or blank, and holds every item whose content after
\* fallback is not, in the provider's order.
C25_NoBlankContent ==
    standardized.stage = "returned" =>
        LET kept == SelectSeq(standardized.articles,
                              LAMBDA a : ~Blank(AfterFallback(a, standardized.source)))
        IN  /\ \A a \in Range(standardized.result) : ~Blank(a.content)
            /\ Len(standardized.result) = Len(kept)
            /\ \A i \in 1..Len(kept) :
                  /\ standardized.result[i].content = AfterFallback(kept[i], standardized.source)
                  /\ standardized.result[i].title \in
                         {kept[i].title, AfterFallback(kept[i], standardized.source),
                          "No title available"}

-----------------------------------------------------------------------------
(* Properties of ModelManager *)

\* C26 as stated: whatever the interleaving of the threads, at most one
\* ModelManager is constructed and at most one sentiment pipeline is loaded.
C26_ConstructedOnce == models.constructed <= 1 /\ models.loaded <= 1

-----------------------------------------------------------------------------
(* Properties of the fetcher's session *)

SessionCall(f, op) == sessions'[f].n # sessions[f].n /\ sessions'[f].op = op

\* C28: _session is None at first; no session but the one in _session is
\* open; _get_session returns the session in _session when there is one and
\* otherwise a session that did not exist before, which it stores; close
\* leaves _session None and no session open, and changes nothing when there
\* was no session.
C28_OneSession ==
    /\ \A f \in FetcherIds : sessions[f].session = 0 /\ sessions[f].open = {}
    /\ [][\A f \in FetcherIds :
            LET s == sessions[f]
                s2 == sessions'[f]
            IN  /\ s2.open \subseteq {s2.session}
                /\ Cardinality(s2.open) <= 1
                /\ SessionCall(f, "_get_session") =>
                      /\ s2.returned = s2.session
                      /\ s2.returned # 0
                      /\ IF s.session # 0
                         THEN s2.session = s.session /\ s2.created = s.created
                                  /\ s2.open = s.open
                         ELSE s2.session \notin 1..s.created /\ s2.open = {s2.session}
                /\ SessionCall(f, "close") =>
                      /\ s2.session = 0
                      /\ s2.open = {}
                      /\ s2.created = s.created
                      /\ (s.session = 0 /\ s.pc = "idle") =>
                            s2 = [s EXCEPT !.op = "close", !.returned = 0, !.n = 1 - @]]_vars

\* A fetcher whose first session was closed has a second one, open, which a
\* second _get_session has just returned again
C28_Witness ==
    \E f \in FetcherIds :
        /\ sessions[f].created = 2
        /\ sessions[f].session = 2
        /\ sessions[f].open = {2}
        /\ sessions[f].op = "_get_session"
        /\ sessions[f].returned = 2
        /\ sessions[f].n = 0

-----------------------------------------------------------------------------
(* Properties of the APIManager singleton *)

\* C29: constructing APIManager again returns the one instance and leaves
\* the quotas with their counters and limits, the registered keys and the
\* rotation timestamps as they were.
C29_ConstructedOnce ==
    [][IsCall("APIManager", "None") =>
          /\ singleton' = singleton
          /\ singleton.instance = 1
          /\ quotas' = quotas
          /\ api_keys' = api_keys
          /\ last_key_rotation' = last_key_rotation]_vars

\* APIManager was constructed again after a request was counted, a limit
\* was cut and a key was registered and rotated
C29_Witness ==
    /\ ret.op = "APIManager"
    /\ \E a \in QuotaNames :
          /\ quotas[a].current_day > 0
          /\ quotas[a].requests_per_minute < API_QUOTAS[a].requests_per_minute
    /\ api_keys # << >>
    /\ last_key_rotation # << >>

-----------------------------------------------------------------------------
(* Properties of /data without event *)

\* No place of the request carries an event that is not empty
NoEvent(request) ==
    /\ ~Truthy(request.form)
    /\ request.json # "event"
    /\ ~Truthy(request.args)

\* C30 as stated: a request without event, or with an empty one, is answered
\* 400 with "Please enter a news event to search for.", and the pipeline is
\* not invoked: nothing is fetched or processed, no quota changes.
C30_NoEventBadRequest ==
    (run.stage = "returned" /\ NoEvent(run.request)) =>
        /\ run.response.status = HTTP_BAD_REQUEST
        /\ run.response.error = "Please enter a news event to search for."
        /\ ~run.invoked
        /\ run.fetched = << >>
        /\ run.processed = NoRun.processed
        /\ quotas = [a \in DOMAIN API_QUOTAS |-> APIQuota(API_QUOTAS[a], 0)]

-----------------------------------------------------------------------------
(* Properties of the windows as intervals of time *)

\* The True returns for a source whose time is in [from, from + window)
AdmittedWithin(a, from, window) ==
    Cardinality({j \in 1..Len(granted[a].times) :
                    from <= granted[a].times[j] /\ granted[a].times[j] < from + window})

\* C31 as stated: in every interval of a window's length, at most the
\* window's limit of can_make_request calls return True.
C31_SlidingWindows ==
    \A a \in QuotaNames :
        \A i \in 1..Len(granted[a].times) :
            LET from == granted[a].times[i]
            IN  /\ AdmittedWithin(a, from, SECOND_WINDOW) <= API_QUOTAS[a].requests_per_second
                /\ AdmittedWithin(a, from, MINUTE_WINDOW) <= API_QUOTAS[a].requests_per_minute
                /\ AdmittedWithin(a, from, DAY_WINDOW) <= API_QUOTAS[a].requests_per_day

-----------------------------------------------------------------------------
(* Properties of the waits between attempts *)

\* The wait RETRY_CONFIG prescribes before retry k
ExponentialDelay(k) ==
    IF BASE_DELAY * EXPONENTIAL_BASE ^ (k - 1) < MAX_DELAY
    THEN BASE_DELAY * EXPONENTIAL_BASE ^ (k - 1) ELSE MAX_DELAY

\* C32 as stated: the wait that starts after failed attempt k is
\* min(300, 5 * 2^(k-1)) seconds, and no wait starts after the last attempt.
C32_ExponentialBackoff ==
    [][\A t \in TaskIds :
          (fetches'[t].pc = "backoff" /\ fetches[t].pc # "backoff") =>
              /\ fetches'[t].wake - now = ExponentialDelay(fetches'[t].attempt + 1)
              /\ fetches'[t].attempt + 1 < fetches'[t].max_retries]_vars

\* C33 as stated: the manager a thread got from get_instance gives it an
\* analyzer, never None, when it then calls get_sentiment_analyzer.
C33_AnalyzerNeverNone ==
    \A t \in ThreadIds :
        models.threads[t].got # 0 => models.threads[t].analyzer # 0

\* C34 as stated: no step raises a limit of a source, and every limit stays
\* at or below the limit the source was configured with.
C34_LimitsNeverIncrease ==
    [][\A a \in DOMAIN quotas :
          /\ quotas'[a].requests_per_second <= quotas[a].requests_per_second
          /\ quotas'[a].requests_per_minute <= quotas[a].requests_per_minute
          /\ quotas'[a].requests_per_day <= quotas[a].requests_per_day
          /\ quotas'[a].requests_per_second <= API_QUOTAS[a].requests_per_second
          /\ quotas'[a].requests_per_minute <= API_QUOTAS[a].requests_per_minute
          /\ quotas'[a].requests_per_day <= API_QUOTAS[a].requests_per_day]_vars

-----------------------------------------------------------------------------
(* Properties of the callers of cached_fetch_and_process_data *)

\* Processing yielded articles and a summary, in either shape
Yielded ==
    /\ run.invoked
    /\ run.processed.result.articles # << >>
    /\ Truthy(run.processed.result.summary)

\* C35 as stated: when processing yields articles and a summary, POST /
\* renders them and _get_trending_summaries records them, whether the result
\* is a dict or a tuple.
C35_BothShapesHandled ==
    /\ (run.stage = "rendered" /\ Yielded) =>
           /\ run.response.summary = run.processed.result.summary
           /\ run.response.articles = run.processed.result.articles
    /\ (run.stage = "recorded" /\ Yielded) =>
           /\ run.response.summary = run.processed.result.summary
           /\ run.response.articles
                  = FirstN(run.processed.result.articles, TRENDING_ARTICLES)

-----------------------------------------------------------------------------
(* Properties of disabled sources *)

DataAnswered == run.stage = "answered"

Disabled(i) == ~run.enabled[i]

\* C36 as stated: a disabled source is not listed in failed_sources, and a
\* request in which every enabled source returned articles carries no
\* partial-failure warning.
C36_DisabledIsSkipped ==
    DataAnswered =>
        /\ \A i \in 1..Len(Sources) :
               Disabled(i) => Sources[i] \notin Range(run.processed.failed_sources)
        /\ (/\ \E i \in 1..Len(Sources) : ~Disabled(i)
            /\ \A i \in 1..Len(Sources) : ~Disabled(i) => run.fetched[i] # << >>)
               => run.response.warning = "None"

-----------------------------------------------------------------------------
(* Requests and admissions *)

\* The step sends the request of task t
Sends(t) == tasks'[t].pc = "requesting" /\ tasks[t].pc # "requesting"

\* The step counts an admission for the source: each window's counter is one
\* above what the counter stood at once a due reset is applied
CountsAdmission(api_name) ==
    /\ api_name \in DOMAIN quotas
    /\ quotas'[api_name].current_second = DueSecond(quotas[api_name], now) + 1
    /\ quotas'[api_name].current_minute = DueMinute(quotas[api_name], now) + 1
    /\ quotas'[api_name].current_day = DueDay(quotas[api_name], now) + 1

\* C37: a request is sent only in a step whose can_make_request call admitted
\* it and counted it, one step sends for one task only, and a fetch has made
\* at least one admission check per attempt it started.
C37_SentOnlyWhenAdmitted ==
    [][/\ \A t \in TaskIds : Sends(t) => CountsAdmission(tasks'[t].api_name)
       /\ \A t, u \in TaskIds : Sends(t) /\ Sends(u) => t = u
       /\ \A t \in TaskIds :
              fetches'[t].pc # "none" => fetches'[t].checks >= fetches'[t].attempt + 1]_vars

\* A retry has been sent on its own admission
C37_Witness ==
    \E t \in TaskIds :
        /\ tasks[t].pc = "requesting"
        /\ fetches[t].attempt >= 1
        /\ fetches[t].checks >= 2
        /\ quotas[tasks[t].api_name].current_day >= 2

-----------------------------------------------------------------------------
(* Sources are independent of each other *)

ManagerOps ==
    {"can_make_request", "handle_rate_limit_error", "handle_auth_error", "get_api_key",
     "register_api_key"}

\* All the manager holds for a source: counters, limits and reset timestamps,
\* the keys in order, the rotation timestamp
SourceState(b) ==
    [quota |-> IF b \in DOMAIN quotas THEN {quotas[b]} ELSE {},
     keys |-> IF b \in DOMAIN api_keys THEN {api_keys[b]} ELSE {},
     rotation |-> IF b \in DOMAIN last_key_rotation THEN {last_key_rotation[b]} ELSE {}]

\* C38: a call of one of the five operations for a source leaves what the
\* manager holds for every other source as it was.
C38_OtherSourcesUnchanged ==
    [][\A a \in ApiNames :
          (\E op \in ManagerOps : IsCall(op, a)) =>
              \A b \in ApiNames \ {a} : SourceState(b)' = SourceState(b)]_vars

\* A quota was reduced for newsapi while jsonplaceholder has counted a
\* request and lost a quarter of its minute limit, and test_api holds a key
C38_Witness ==
    /\ ret.op = "handle_rate_limit_error"
    /\ ret.api_name = "newsapi"
    /\ quotas["newsapi"].requests_per_minute < NewsPerMinute
    /\ quotas["jsonplaceholder"].current_day >= 1
    /\ quotas["jsonplaceholder"].requests_per_minute < PlaceholderPerMinute
    /\ KeysOf("test_api") # << >>
    /\ "newsapi" \in DOMAIN last_key_rotation

-----------------------------------------------------------------------------
(* The thread pool of _fetch_and_process_data *)

\* The place of a source in the fixed order
SourceIndex(source) == CHOOSE i \in 1..Len(Sources) : Sources[i] = source

\* The articles in the order in which _fetch_and_process_data merged them
Merged == CappedArticles(run.fetched)

-----------------------------------------------------------------------------
(* Termination *)

FetchStarted(t) == fetches[t].pc \in {"running", "backoff"}

FetchReturned(t) == fetches[t].pc = "returned"

\* C39: a fetch that has started returns, having made at most max_retries
\* attempts, also when an admission was denied; and a run whose seven futures
\* are done returns its outcome.
C39_EveryFetchTerminates ==
    /\ \A t \in TaskIds : FetchStarted(t) ~> FetchReturned(t)
    /\ [](\A t \in TaskIds : FetchStarted(t) => fetches[t].attempt < fetches[t].max_retries)
    /\ AllFuturesDone ~> (run.stage = "processed")

\* A fetch returned None after its last attempt, an admission having been
\* denied on the way
C39_Witness ==
    \E t \in TaskIds :
        /\ FetchReturned(t)
        /\ fetches[t].returned = "None"
        /\ fetches[t].waits >= 1
        /\ fetches[t].attempt = fetches[t].max_retries - 1
        /\ fetches[t].attempt >= 1

=============================================================================
